---- MODULE Spec2Model ----
(***************************************************************************)
(* Camera auto-calibration and GIF export of the tacky-text-generator.     *)
(*                                                                         *)
(* Units.  World lengths are in hundredths of a scene unit (3 units = 300),*)
(* screen coordinates in thousandths of the canvas (1.0 = 1000), time in   *)
(* milliseconds, sines in thousandths.  Divisions truncate where the       *)
(* source computes in floating point.                                      *)
(***************************************************************************)
EXTENDS Integers, Sequences, FiniteSets, TLC

\* the null / absent value of a nullable state cell
Null == [null |-> TRUE]
\* a non-null number held in a nullable cell
Some(v) == [value |-> v]

Abs(x) == IF x < 0 THEN -x ELSE x
Min(a, b) == IF a < b THEN a ELSE b
Max(a, b) == IF a > b THEN a ELSE b

(***************************************************************************)
(* Bounds of the model.                                                    *)
(***************************************************************************)
\* how many entries of ConfigTable randomizeTextConfig may return
NumConfigs == 2

\* the longest of the short texts whose file name is computed
MaxTextLen == 3

\* the longest time (ms) the clock of the Frame Driver runs freely
MaxElapsed == 3200

(***************************************************************************)
(* Program constants.                                                      *)
(***************************************************************************)
startZ == 300          \* calibrationRef.currentZ / finalZ initial value, 3
maxZ == 2000           \* calibrationRef.maxZ, 20
stepSize == 30         \* calibrationRef.stepSize, 0.3
stepsPerCycle == 24    \* calibrationRef.stepsPerCycle
numCycles == 2         \* calibrationRef.numCycles
stepsPerFrameFast == 10  \* stepsPerFrame when SHOW_CALIBRATION is off
stepsPerFrameSlow == 1   \* stepsPerFrame when SHOW_CALIBRATION is on
basePadding == 20      \* 0.02 of the canvas
minWidth == 1          \* 0.01, the least width of a loaded text box
filenameLimit == 30    \* substring(0, 30)
TARGET_FPS == 12
TanHalfFov == 466      \* tan(fov / 2) in thousandths, fov = 50 degrees

totalSteps == stepsPerCycle * numCycles

(***************************************************************************)
(* The configs randomizeTextConfig may produce.  A config carries the      *)
(* animation parameters and the extent of the text geometry built from it  *)
(* (half width, half height, half depth of the centred text mesh).         *)
(***************************************************************************)
ConfigTable ==
  << [text |-> "Hi", type |-> "pulse", amplitude |-> 20, cycleDuration |-> 1200,
      initialAngle |-> [x |-> 0, y |-> 0], halfW |-> 100, halfH |-> 40, halfD |-> 10],
     [text |-> "Hello World", type |-> "pulse", amplitude |-> 25, cycleDuration |-> 800,
      initialAngle |-> [x |-> 0, y |-> 0], halfW |-> 120, halfH |-> 40, halfD |-> 10],
     [text |-> "A rather long banner line", type |-> "wave", amplitude |-> 30,
      cycleDuration |-> 1600, initialAngle |-> [x |-> 0, y |-> 0],
      halfW |-> 1000, halfH |-> 40, halfD |-> 10],
     [text |-> "Up\nDown", type |-> "bounce", amplitude |-> 40, cycleDuration |-> 1200,
      initialAngle |-> [x |-> 0, y |-> 0], halfW |-> 90, halfH |-> 100, halfD |-> 10] >>

Configs == { ConfigTable[i] : i \in 1..NumConfigs }

\* JSON.stringify(config): equal strings exactly for structurally equal configs
configKeyOf(cfg) == IF cfg = Null THEN Null ELSE cfg

(***************************************************************************)
(* Transform Evaluator, sampled at t = k / stepsPerCycle.                  *)
(***************************************************************************)
Sin24 == << 0, 259, 500, 707, 866, 966, 1000, 966, 866, 707, 500, 259,
            0, -259, -500, -707, -866, -966, -1000, -966, -866, -707, -500, -259 >>

\* Math.sin(t * TWO_PI) in thousandths for t = k / 24
SinAt(k) == Sin24[(k % stepsPerCycle) + 1]

\* Angles are counted in degrees: TWO_PI is a full turn
TWO_PI == 360

PI == TWO_PI \div 2

HALF_PI == PI \div 2

\* a % n of JavaScript: the remainder has the sign of the dividend
JsRemainder(a, n) == IF a >= 0 THEN a % n ELSE -((-a) % n)

\* mutant: the boundary angles count as facing away
getFlipOffset_Inclusive(animationAngle, initialAngle) ==
  LET rem == JsRemainder(animationAngle + initialAngle, TWO_PI)
      totalAngle == IF rem < 0 THEN rem + TWO_PI ELSE rem
  IN IF totalAngle >= HALF_PI /\ totalAngle <= HALF_PI * 3 THEN PI ELSE 0

\* mutant: the total angle is compared as it is, without normalising it
getFlipOffset_NotNormalised(animationAngle, initialAngle) ==
  LET totalAngle == animationAngle + initialAngle
  IN IF totalAngle > HALF_PI /\ totalAngle < HALF_PI * 3 THEN PI ELSE 0

\* getFlipOffset: half a turn while the text would face away from the viewer
getFlipOffset(animationAngle, initialAngle) ==
  LET rem == JsRemainder(animationAngle + initialAngle, TWO_PI)
      totalAngle == IF rem < 0 THEN rem + TWO_PI ELSE rem
  IN IF totalAngle > HALF_PI /\ totalAngle < HALF_PI * 3 THEN PI ELSE 0

\* Math.sin(t * TWO_PI) * amp as an angle in degrees (amp in hundredths of a
\* radian, pi taken as 3.1416)
SwingAngle(cfg, k) == (SinAt(k) * cfg.amplitude * 18) \div 31416

\* applyAnimationTransform at t = k / stepsPerCycle: group scale (thousandths),
\* position.y, and the group quaternion initialQuat * animQuat, kept as the
\* Euler angles of initialQuat and the axis and angle of animQuat
applyAnimationTransform(cfg, k) ==
  LET animAngle == (k * TWO_PI) \div stepsPerCycle
      initialQuat == [x |-> cfg.initialAngle.x, y |-> cfg.initialAngle.y]
      still == [scale |-> 1000, posY |-> 0, initialQuat |-> initialQuat,
                axis |-> "none", angle |-> 0]
  IN CASE cfg.type = "spinY" ->
            [still EXCEPT !.axis = "y",
               !.angle = animAngle + getFlipOffset(animAngle, cfg.initialAngle.y)]
       [] cfg.type = "spinX" ->
            [still EXCEPT !.axis = "x",
               !.angle = animAngle + getFlipOffset(animAngle, cfg.initialAngle.x)]
       [] cfg.type = "spinZ" -> [still EXCEPT !.axis = "z", !.angle = animAngle]
       [] cfg.type = "swingY" -> [still EXCEPT !.axis = "y", !.angle = SwingAngle(cfg, k)]
       [] cfg.type = "swingX" -> [still EXCEPT !.axis = "x", !.angle = SwingAngle(cfg, k)]
       [] cfg.type = "swingZ" -> [still EXCEPT !.axis = "z", !.angle = SwingAngle(cfg, k)]
       [] cfg.type = "bounce" ->
            [still EXCEPT !.posY = (Abs(SinAt(k)) * cfg.amplitude) \div 1000]
       [] cfg.type = "pulse" ->
            [still EXCEPT !.scale = 1000 + (SinAt(k) * cfg.amplitude) \div 100]
       [] OTHER -> still

\* new THREE.Box3().setFromObject(group) after the transform was applied
Box3Of(cfg, k) ==
  LET tr == applyAnimationTransform(cfg, k)
      hw == (cfg.halfW * tr.scale) \div 1000
      hh == (cfg.halfH * tr.scale) \div 1000
      hd == (cfg.halfD * tr.scale) \div 1000
  IN [minX |-> -hw, maxX |-> hw,
      minY |-> tr.posY - hh, maxY |-> tr.posY + hh,
      minZ |-> -hd, maxZ |-> hd]

\* half extent of the view at distance d in front of the camera (aspect 1)
HalfView(d) == (d * TanHalfFov) \div 1000

\* frustum.containsPoint for a camera at (0, 0, camZ) looking down -z
containsPoint(p, camZ) ==
  LET d == camZ - p.z
  IN /\ d > 0
     /\ Abs(p.x) <= HalfView(d)
     /\ Abs(p.y) <= HalfView(d)

Corners(box) ==
  { [x |-> x, y |-> y, z |-> z] :
      x \in {box.minX, box.maxX}, y \in {box.minY, box.maxY}, z \in {box.minZ, box.maxZ} }

\* the box tested by the calibrator: inflated vertically for wave
TestBox(cfg, k) ==
  LET box == Box3Of(cfg, k)
  IN IF cfg.type = "wave"
       THEN [box EXCEPT !.minY = @ - cfg.amplitude, !.maxY = @ + cfg.amplitude]
       ELSE box

boxIsEmpty(box) ==
  \/ box.maxX < box.minX
  \/ box.maxY < box.minY
  \/ box.maxZ < box.minZ

\* overflowDetected for sample k with the camera at camZ
overflowDetected(cfg, k, camZ) ==
  LET box == TestBox(cfg, k)
  IN /\ ~boxIsEmpty(box)
     /\ \E c \in Corners(box) : ~containsPoint(c, camZ)

\* vertex.project(cam) followed by the conversion to 0-1 screen space
ProjectToScreen(p, camZ) ==
  LET h == HalfView(camZ - p.z)
      ndcX == (p.x * 1000) \div h
      ndcY == (p.y * 1000) \div h
  IN [x |-> (ndcX + 1000) \div 2, y |-> (1000 - ndcY) \div 2]

\* the sampled mesh vertices of the group at sample k (its extreme vertices)
MeshVertices(cfg, k) == Corners(Box3Of(cfg, k))

EmptyBounds == [minX |-> 1000, maxX |-> 0, minY |-> 1000, maxY |-> 0]

SetMin(S) == CHOOSE m \in S : \A n \in S : m <= n
SetMax(S) == CHOOSE m \in S : \A n \in S : m >= n

\* the group.traverse block: fold the projected vertices into the accumulator
AccumulateBounds(sb, cfg, k, camZ) ==
  LET pts == { ProjectToScreen(v, camZ) : v \in MeshVertices(cfg, k) }
      xs == { p.x : p \in pts }
      ys == { p.y : p \in pts }
  IN [minX |-> Min(sb.minX, SetMin(xs)), maxX |-> Max(sb.maxX, SetMax(xs)),
      minY |-> Min(sb.minY, SetMin(ys)), maxY |-> Max(sb.maxY, SetMax(ys))]

\* mutant: the padding is added without clamping
PaddedBounds_Unclamped(sb, cfg) ==
  LET waveExtraPadding == IF cfg.type = "wave" THEN (cfg.amplitude * 3) \div 2 ELSE 0
  IN [minX |-> sb.minX - basePadding,
      maxX |-> sb.maxX + basePadding,
      minY |-> sb.minY - basePadding - waveExtraPadding,
      maxY |-> sb.maxY + basePadding + waveExtraPadding]

\* the padded and clamped bounds handed to onCalibrated
PaddedBounds(sb, cfg) ==
  LET waveExtraPadding == IF cfg.type = "wave" THEN (cfg.amplitude * 3) \div 2 ELSE 0
  IN [minX |-> Max(0, sb.minX - basePadding),
      maxX |-> Min(1000, sb.maxX + basePadding),
      minY |-> Max(0, sb.minY - basePadding - waveExtraPadding),
      maxY |-> Min(1000, sb.maxY + basePadding + waveExtraPadding)]

(***************************************************************************)
(* Camera Calibrator state machine (the useFrame callback).                *)
(***************************************************************************)
FreshCalibration ==
  [phase |-> "waiting", currentZ |-> startZ, animationStep |-> 0,
   screenBounds |-> EmptyBounds, finalZ |-> startZ]

\* mutant: the overflow branch forgets to back the camera off
OnOverflow_NoBackOff(cal) == [cal EXCEPT !.animationStep = 0]

\* mutant: the overflow branch backs off by two steps at once
OnOverflow_DoubleStep(cal) ==
  LET z == cal.currentZ + 2 * stepSize
  IN IF z >= maxZ
       THEN [cal EXCEPT !.currentZ = z, !.finalZ = maxZ, !.phase = "bounds",
                        !.animationStep = 0, !.screenBounds = EmptyBounds]
       ELSE [cal EXCEPT !.currentZ = z, !.animationStep = 0]

\* mutant: at the cap the final distance is the trial distance, not maxZ
OnOverflow_NoClamp(cal) ==
  LET z == cal.currentZ + stepSize
  IN IF z >= maxZ
       THEN [cal EXCEPT !.currentZ = z, !.finalZ = z, !.phase = "bounds",
                        !.animationStep = 0, !.screenBounds = EmptyBounds]
       ELSE [cal EXCEPT !.currentZ = z, !.animationStep = 0]

\* overflow branch of the calibrating loop
OnOverflow(cal) ==
  LET z == cal.currentZ + stepSize
  IN IF z >= maxZ
       THEN [cal EXCEPT !.currentZ = z, !.finalZ = maxZ, !.phase = "bounds",
                        !.animationStep = 0, !.screenBounds = EmptyBounds]
       ELSE [cal EXCEPT !.currentZ = z, !.animationStep = 0]

\* mutant: the pass branch compares the sample index with numCycles
OnPass_FewSamples(cal) ==
  IF cal.animationStep + 1 >= numCycles
    THEN [cal EXCEPT !.finalZ = cal.currentZ, !.phase = "bounds",
                     !.animationStep = 0, !.screenBounds = EmptyBounds]
    ELSE [cal EXCEPT !.animationStep = @ + 1]

\* mutant: a search that passed every sample is done, without measuring bounds
OnPass_SkipsBounds(cal) ==
  IF cal.animationStep + 1 >= totalSteps
    THEN [cal EXCEPT !.finalZ = cal.currentZ, !.phase = "done",
                     !.animationStep = 0, !.screenBounds = EmptyBounds]
    ELSE [cal EXCEPT !.animationStep = @ + 1]

\* pass branch of the calibrating loop
OnPass(cal) ==
  IF cal.animationStep + 1 >= totalSteps
    THEN [cal EXCEPT !.finalZ = cal.currentZ, !.phase = "bounds",
                     !.animationStep = 0, !.screenBounds = EmptyBounds]
    ELSE [cal EXCEPT !.animationStep = @ + 1]

\* one iteration of the calibrating while loop
CalibratingStep(cal, cfg) ==
  IF overflowDetected(cfg, cal.animationStep % stepsPerCycle, cal.currentZ)
    THEN OnOverflow(cal)
    ELSE OnPass(cal)

\* mutant: the bounds are measured with the camera at the last trial distance
BoundsStep_AtTrialDistance(cal, cfg) ==
  LET sb == AccumulateBounds(cal.screenBounds, cfg,
                             cal.animationStep % stepsPerCycle, cal.currentZ)
  IN IF cal.animationStep + 1 >= totalSteps
       THEN [cal EXCEPT !.screenBounds = sb, !.animationStep = @ + 1, !.phase = "done"]
       ELSE [cal EXCEPT !.screenBounds = sb, !.animationStep = @ + 1]

\* one iteration of the bounds while loop
BoundsStep(cal, cfg) ==
  LET sb == AccumulateBounds(cal.screenBounds, cfg,
                             cal.animationStep % stepsPerCycle, cal.finalZ)
  IN IF cal.animationStep + 1 >= totalSteps
       THEN [cal EXCEPT !.screenBounds = sb, !.animationStep = @ + 1, !.phase = "done"]
       ELSE [cal EXCEPT !.screenBounds = sb, !.animationStep = @ + 1]

\* mutant: the loop uses up its frame budget even after the search has ended
RECURSIVE CalibratingLoop_IgnoresPhase(_, _, _)
CalibratingLoop_IgnoresPhase(cal, cfg, n) ==
  CHOOSE r \in { IF n = 0
                   THEN c
                   ELSE CalibratingLoop_IgnoresPhase(CalibratingStep(c, cfg), cfg, n - 1) :
                 c \in {cal} } : TRUE

\* the calibrating while loop with n steps of the frame budget left (the state
\* reached so far is bound to c, so that each step is evaluated once)
RECURSIVE CalibratingLoop(_, _, _)
CalibratingLoop(cal, cfg, n) ==
  CHOOSE r \in { IF n = 0 \/ c.phase # "calibrating"
                   THEN c
                   ELSE CalibratingLoop(CalibratingStep(c, cfg), cfg, n - 1) :
                 c \in {cal} } : TRUE

\* the bounds while loop with n steps of the frame budget left
RECURSIVE BoundsLoop(_, _, _)
BoundsLoop(cal, cfg, n) ==
  CHOOSE r \in { IF n = 0 \/ c.phase # "bounds"
                   THEN c
                   ELSE BoundsLoop(BoundsStep(c, cfg), cfg, n - 1) :
                 c \in {cal} } : TRUE

\* mutant: every frame spent waiting for the geometry backs the camera off
CalibratorFrame_WaitingDrift(cal, cfg, geometryReady, stepsPerFrame) ==
  IF cal.phase = "done" THEN cal
  ELSE IF cal.phase = "waiting" /\ ~geometryReady
    THEN [cal EXCEPT !.currentZ = Min(@ + stepSize, maxZ - stepSize)]
  ELSE IF cal.phase \in {"waiting", "calibrating"}
    THEN CalibratingLoop([cal EXCEPT !.phase = "calibrating"], cfg, stepsPerFrame)
    ELSE BoundsLoop(cal, cfg, stepsPerFrame)

\* the whole useFrame callback of CameraCalibrator
CalibratorFrame(cal, cfg, geometryReady, stepsPerFrame) ==
  IF cal.phase = "done" THEN cal
  ELSE IF cal.phase = "waiting" /\ ~geometryReady THEN cal
  ELSE IF cal.phase \in {"waiting", "calibrating"}
    THEN CalibratingLoop([cal EXCEPT !.phase = "calibrating"], cfg, stepsPerFrame)
    ELSE BoundsLoop(cal, cfg, stepsPerFrame)

(***************************************************************************)
(* Frame Driver (ClockController) and capture arithmetic.                  *)
(***************************************************************************)
\* the wall-clock time three.js adds to clock.elapsedTime per rendered frame
FrameDeltas == {400}

\* getT: (clock.elapsedTime % cycleDuration) / cycleDuration, in thousandths
getT(elapsed, cycleDuration) == ((elapsed % cycleDuration) * 1000) \div cycleDuration

\* mutant: the clock is set to t seconds, whatever the cycle duration
setT_Seconds(num, den, cycleDuration) == (num * 1000) \div den

\* setT for t = num / den: clock.elapsedTime = t * cycleDuration
setT(num, den, cycleDuration) == (num * cycleDuration) \div den

\* mutant: the frame count is truncated instead of rounded
targetFrameCount_Floor(cycleDuration) == (cycleDuration * TARGET_FPS) \div 1000

\* Math.round(cycleDuration * TARGET_FPS), cycleDuration in milliseconds
targetFrameCount(cycleDuration) == (cycleDuration * TARGET_FPS + 500) \div 1000

\* the options record built by handleExportGif: it carries no setAnimationT
ExportOptions(cfg, bounds) ==
  [cycleDuration |-> cfg.cycleDuration, screenBounds |-> bounds,
   hasSetAnimationT |-> FALSE]

(***************************************************************************)
(* The suggested file name.  A text is the sequence of its characters.     *)
(***************************************************************************)
LowerCaseLetters ==
  << "a", "b", "c", "d", "e", "f", "g", "h", "i", "j", "k", "l", "m",
     "n", "o", "p", "q", "r", "s", "t", "u", "v", "w", "x", "y", "z" >>

UpperCaseLetters ==
  << "A", "B", "C", "D", "E", "F", "G", "H", "I", "J", "K", "L", "M",
     "N", "O", "P", "Q", "R", "S", "T", "U", "V", "W", "X", "Y", "Z" >>

DigitCharacters == << "0", "1", "2", "3", "4", "5", "6", "7", "8", "9" >>

\* .split('\n')[0]
FirstLine(text) ==
  LET breaks == { i \in 1..Len(text) : text[i] = "\n" }
  IN IF breaks = {}
       THEN text
       ELSE SubSeq(text, 1, (CHOOSE i \in breaks : \A j \in breaks : i <= j) - 1)

\* .toLowerCase()
toLowerCase(text) ==
  [i \in 1..Len(text) |->
     IF \E k \in 1..Len(UpperCaseLetters) : UpperCaseLetters[k] = text[i]
       THEN LowerCaseLetters[CHOOSE k \in 1..Len(UpperCaseLetters) :
                               UpperCaseLetters[k] = text[i]]
       ELSE text[i]]

\* the character class [a-z0-9]
MatchesAlnum(ch) ==
  \/ \E k \in 1..Len(LowerCaseLetters) : LowerCaseLetters[k] = ch
  \/ \E k \in 1..Len(DigitCharacters) : DigitCharacters[k] = ch

\* mutant: the pattern matches one character at a time
MatchEnd_OneCharacter(s, i) == i + 1

\* [^a-z0-9]+ matching at position i: the position after the match (greedy)
RECURSIVE MatchEnd(_, _)
MatchEnd(s, i) ==
  IF i > Len(s) \/ MatchesAlnum(s[i]) THEN i ELSE MatchEnd(s, i + 1)

\* .replace(/[^a-z0-9]+/g, '_') from position i on
RECURSIVE ReplaceRuns(_, _)
ReplaceRuns(s, i) ==
  IF i > Len(s)
    THEN << >>
    ELSE IF MatchesAlnum(s[i])
      THEN << s[i] >> \o ReplaceRuns(s, i + 1)
      ELSE << "_" >> \o ReplaceRuns(s, MatchEnd(s, i))

\* .substring(0, 30)
substring(s, limit) == SubSeq(s, 1, IF Len(s) < limit THEN Len(s) ELSE limit)

\* the filename handed to downloadBlob
ExportFilename(text) ==
  substring(ReplaceRuns(toLowerCase(FirstLine(text)), 1), filenameLimit)
    \o << ".", "g", "i", "f" >>

(***************************************************************************)
(* Palette Builder & Indexer.  An ImageData is the sequence of its pixels  *)
(* in row order, a pixel the record of its r, g, b (0..255; the alpha byte *)
(* is never read).  Palette index k of the source is position k + 1 of the *)
(* sequence that models the palette.                                       *)
(***************************************************************************)
threshold == 5         \* captureGif: const threshold = 5
PaletteSize == 256     \* buildGlobalPalette pads to 256 entries
TopColors == 255       \* buildGlobalPalette keeps the 255 most frequent colours

Rgb(r, g, b) == [r |-> r, g |-> g, b |-> b]

\* mutant: only an exact match of the chroma key counts as transparent
MatchesChromaKey_Exact(p, chromaKeyRgb) == p = chromaKeyRgb

\* dr < threshold && dg < threshold && db < threshold
MatchesChromaKey(p, chromaKeyRgb) ==
  /\ Abs(p.r - chromaKeyRgb.r) < threshold
  /\ Abs(p.g - chromaKeyRgb.g) < threshold
  /\ Abs(p.b - chromaKeyRgb.b) < threshold

\* the position of colour c among the keys of colorCounts, 0 if it is no key
KeyIndex(colorCounts, c) ==
  LET at == { k \in 1..Len(colorCounts) : colorCounts[k].color = c }
  IN IF at = {} THEN 0 ELSE CHOOSE k \in at : TRUE

\* mutant: black pixels are not counted
CountPixel_SkipsBlack(colorCounts, p, chromaKeyRgb) ==
  IF MatchesChromaKey(p, chromaKeyRgb) \/ p = Rgb(0, 0, 0)
    THEN colorCounts
    ELSE LET k == KeyIndex(colorCounts, p)
         IN IF k = 0
              THEN Append(colorCounts, [color |-> p, count |-> 1])
              ELSE [colorCounts EXCEPT ![k].count = @ + 1]

\* colorCounts.set(key, (colorCounts.get(key) || 0) + 1) for one pixel; the Map
\* keeps its keys in the order of their first insertion
CountPixel(colorCounts, p, chromaKeyRgb) ==
  IF MatchesChromaKey(p, chromaKeyRgb)
    THEN colorCounts
    ELSE LET k == KeyIndex(colorCounts, p)
         IN IF k = 0
              THEN Append(colorCounts, [color |-> p, count |-> 1])
              ELSE [colorCounts EXCEPT ![k].count = @ + 1]

\* the inner loop of buildGlobalPalette over pixels lo..hi of one frame, in
\* order (the range is split in two so that the evaluation stays shallow)
RECURSIVE CountFrame(_, _, _, _, _)
CountFrame(colorCounts, data, lo, hi, chromaKeyRgb) ==
  IF lo > hi
    THEN colorCounts
    ELSE IF lo = hi
      THEN CountPixel(colorCounts, data[lo], chromaKeyRgb)
      ELSE LET mid == (lo + hi) \div 2
           IN CHOOSE r \in { CountFrame(c, data, mid + 1, hi, chromaKeyRgb) :
                             c \in { CountFrame(colorCounts, data, lo, mid,
                                                chromaKeyRgb) } } : TRUE

\* the outer loop of buildGlobalPalette over the frames, from frame f
RECURSIVE CountColors(_, _, _, _)
CountColors(colorCounts, frames, f, chromaKeyRgb) ==
  IF f > Len(frames)
    THEN colorCounts
    ELSE CHOOSE r \in { CountColors(c, frames, f + 1, chromaKeyRgb) :
                        c \in { CountFrame(colorCounts, frames[f], 1,
                                           Len(frames[f]), chromaKeyRgb) } } : TRUE

\* mutant: the entries are sorted by ascending count
SortedColors_Ascending(colorCounts) ==
  LET n == Len(colorCounts)
      rank(k) == Cardinality({ m \in 1..n :
                    \/ colorCounts[m].count < colorCounts[k].count
                    \/ colorCounts[m].count = colorCounts[k].count /\ m < k })
      sorted == [q \in 1..n |-> colorCounts[CHOOSE k \in 1..n : rank(k) = q - 1].color]
  IN SubSeq(sorted, 1, Min(n, TopColors))

\* Array.from(colorCounts.entries()).sort((a, b) => b[1] - a[1]).slice(0, 255):
\* a stable sort by descending count, then the first 255 colours
SortedColors(colorCounts) ==
  LET n == Len(colorCounts)
      rank(k) == Cardinality({ m \in 1..n :
                    \/ colorCounts[m].count > colorCounts[k].count
                    \/ colorCounts[m].count = colorCounts[k].count /\ m < k })
      sorted == [q \in 1..n |-> colorCounts[CHOOSE k \in 1..n : rank(k) = q - 1].color]
  IN SubSeq(sorted, 1, Min(n, TopColors))

\* mutant: the palette is not capped, every counted colour gets an entry
PaletteOf_Uncapped(colorCounts, chromaKeyRgb) ==
  LET head == << chromaKeyRgb >> \o [k \in 1..Len(colorCounts) |-> colorCounts[k].color]
  IN head \o [k \in 1..Max(0, PaletteSize - Len(head)) |-> Rgb(0, 0, 0)]

\* the palette built from the counts: the chroma key at index 0, the sorted
\* colours, then [0, 0, 0] up to 256 entries
PaletteOf(colorCounts, chromaKeyRgb) ==
  LET head == << chromaKeyRgb >> \o SortedColors(colorCounts)
  IN head \o [k \in 1..(PaletteSize - Len(head)) |-> Rgb(0, 0, 0)]

\* (r - pr) ** 2 + (g - pg) ** 2 + (b - pb) ** 2
Dist(p, q) ==
  (p.r - q.r) * (p.r - q.r) + (p.g - q.g) * (p.g - q.g) + (p.b - q.b) * (p.b - q.b)

\* larger than any distance of two colours; stands for bestDist = Infinity
Infinity == 3 * 255 * 255 + 1

\* mutant: a later entry at the same distance replaces the best one
FindStep_LastWins(p, palette, i, best) ==
  LET dist == Dist(p, palette[i + 1])
  IN IF dist <= best.dist THEN [index |-> i, dist |-> dist] ELSE best

\* the body of the loop of findClosestColor for palette index i
FindStep(p, palette, i, best) ==
  LET dist == Dist(p, palette[i + 1])
  IN IF dist < best.dist THEN [index |-> i, dist |-> dist] ELSE best

\* the loop of findClosestColor over palette indices lo..hi, in order (the
\* range is split in two so that the evaluation stays shallow)
RECURSIVE FindLoop(_, _, _, _, _)
FindLoop(p, palette, lo, hi, best) ==
  IF lo > hi
    THEN best
    ELSE IF lo = hi
      THEN FindStep(p, palette, lo, best)
      ELSE LET mid == (lo + hi) \div 2
           IN CHOOSE r \in { FindLoop(p, palette, mid + 1, hi, b1) :
                             b1 \in { FindLoop(p, palette, lo, mid, best) } } : TRUE

\* mutant: the search starts at index 0, the transparent entry
findClosestColor_FromZero(p, palette) ==
  FindLoop(p, palette, 0, Len(palette) - 1, [index |-> 0, dist |-> Infinity]).index

\* bestIndex = 1, bestDist = Infinity, for (let i = 1; i < palette.length; i++)
findClosestColor(p, palette) ==
  FindLoop(p, palette, 1, Len(palette) - 1, [index |-> 1, dist |-> Infinity]).index

\* the indexed buffer of one frame
indexFrame(data, palette, chromaKeyRgb) ==
  [j \in 1..Len(data) |->
     IF MatchesChromaKey(data[j], chromaKeyRgb)
       THEN 0
       ELSE findClosestColor(data[j], palette)]

\* (r << 16) | (g << 8) | b
Packed(c) == c.r * 65536 + c.g * 256 + c.b

(***************************************************************************)
(* Frame Capture & Crop, and the calls made on the GIF encoder.            *)
(***************************************************************************)
\* Math.round(a / b) for a >= 0, b > 0
RoundDiv(a, b) == (2 * a + b) \div (2 * b)

(***************************************************************************)
(* The numbers of the crop arithmetic.  A JavaScript number is an IEEE 754 *)
(* double: 53 significant bits, every operation rounded to the nearest     *)
(* double, ties to the even one.  The values met here are 0 or at least    *)
(* 2^-10 and below 2^12, so a double is held exactly as a sign, an         *)
(* integer part and 64 fraction bits, the fraction in four limbs of 16     *)
(* bits, most significant first.                                           *)
(***************************************************************************)
LimbBase == 2 ^ 16

\* bit j (1 is the most significant) of a fraction
FracBit(f, j) == (f[((j - 1) \div 16) + 1] \div (2 ^ (15 - ((j - 1) % 16)))) % 2

\* the number of bits of a positive integer below 2^12
BitLength(n) == CHOOSE b \in 1..12 : 2 ^ (b - 1) <= n /\ n < 2 ^ b

\* the place of the leading 1: 1 - BitLength for a number of 1 or more, the
\* first set fraction bit below 1, and 65 for 0
LeadingPlace(v) ==
  IF v.i > 0
    THEN 1 - BitLength(v.i)
    ELSE IF \E j \in 1..64 : FracBit(v.f, j) = 1
      THEN CHOOSE j \in 1..64 : FracBit(v.f, j) = 1 /\ \A h \in 1..(j - 1) : FracBit(v.f, h) = 0
      ELSE 65

\* the fraction with the bits after place p cleared
ClearBelow(f, p) ==
  [m \in 1..4 |->
     IF 16 * m <= p THEN f[m]
     ELSE IF 16 * (m - 1) >= p THEN 0
     ELSE f[m] - (f[m] % (2 ^ (16 * m - p)))]

\* v plus one unit of fraction place p, with the carries
AddUnit(v, p) ==
  LET m == ((p - 1) \div 16) + 1
      add == [h \in 1..4 |-> IF h = m THEN 2 ^ (16 * m - p) ELSE 0]
      s4 == v.f[4] + add[4]
      s3 == v.f[3] + add[3] + s4 \div LimbBase
      s2 == v.f[2] + add[2] + s3 \div LimbBase
      s1 == v.f[1] + add[1] + s2 \div LimbBase
  IN [v EXCEPT !.i = @ + s1 \div LimbBase,
               !.f = << s1 % LimbBase, s2 % LimbBase, s3 % LimbBase, s4 % LimbBase >>]

\* the double nearest to the exact value v (sticky: bits beyond the 64th
\* were lost), ties to even
RoundToDouble(v, sticky) ==
  LET p == LeadingPlace(v) + 52
  IN IF p >= 64
       THEN v
       ELSE LET roundBit == FracBit(v.f, p + 1)
                rest == sticky \/ \E j \in (p + 2)..64 : FracBit(v.f, j) = 1
                lsb == FracBit(v.f, p)
                kept == [v EXCEPT !.f = ClearBelow(v.f, p)]
            IN IF roundBit = 1 /\ (rest \/ lsb = 1) THEN AddUnit(kept, p) ELSE kept

\* the double nearest to num / den, for 0 <= num / den and den up to 1000
NumberOf(num, den) ==
  LET r0 == num % den
      l1 == (r0 * LimbBase) \div den
      r1 == (r0 * LimbBase) % den
      l2 == (r1 * LimbBase) \div den
      r2 == (r1 * LimbBase) % den
      l3 == (r2 * LimbBase) \div den
      r3 == (r2 * LimbBase) % den
      l4 == (r3 * LimbBase) \div den
      r4 == (r3 * LimbBase) % den
  IN RoundToDouble([neg |-> FALSE, i |-> num \div den, f |-> << l1, l2, l3, l4 >>],
                   r4 # 0)

\* a < b for numbers that are not negative
LessThan(a, b) ==
  \/ a.i < b.i
  \/ a.i = b.i /\ \E m \in 1..4 : a.f[m] < b.f[m] /\ \A h \in 1..(m - 1) : a.f[h] = b.f[h]

\* a - b for a >= b >= 0, exact
Difference(a, b) ==
  LET d4 == a.f[4] - b.f[4]
      b4 == IF d4 < 0 THEN 1 ELSE 0
      d3 == a.f[3] - b.f[3] - b4
      b3 == IF d3 < 0 THEN 1 ELSE 0
      d2 == a.f[2] - b.f[2] - b3
      b2 == IF d2 < 0 THEN 1 ELSE 0
      d1 == a.f[1] - b.f[1] - b2
      b1 == IF d1 < 0 THEN 1 ELSE 0
  IN [neg |-> FALSE, i |-> a.i - b.i - b1,
      f |-> << d1 + b1 * LimbBase, d2 + b2 * LimbBase, d3 + b3 * LimbBase,
               d4 + b4 * LimbBase >>]

\* a - b of JavaScript for numbers that are not negative
Minus(a, b) ==
  IF LessThan(a, b)
    THEN [RoundToDouble(Difference(b, a), FALSE) EXCEPT !.neg = TRUE]
    ELSE RoundToDouble(Difference(a, b), FALSE)

\* a * n of JavaScript for an integer 0 <= n < 2^11
Times(a, n) ==
  LET p4 == a.f[4] * n
      p3 == a.f[3] * n + p4 \div LimbBase
      p2 == a.f[2] * n + p3 \div LimbBase
      p1 == a.f[1] * n + p2 \div LimbBase
  IN RoundToDouble([neg |-> a.neg /\ n # 0, i |-> a.i * n + p1 \div LimbBase,
                    f |-> << p1 % LimbBase, p2 % LimbBase, p3 % LimbBase,
                             p4 % LimbBase >>], FALSE)

IsWhole(a) == a.f = << 0, 0, 0, 0 >>

\* Math.floor
Floor(a) == IF a.neg THEN -(IF IsWhole(a) THEN a.i ELSE a.i + 1) ELSE a.i

\* Math.ceil
Ceil(a) == IF a.neg THEN -a.i ELSE IF IsWhole(a) THEN a.i ELSE a.i + 1

\* srcX, srcY, srcW, srcH: Math.floor / Math.ceil of bounds times the canvas
\* size, the bounds being the doubles nearest to their thousandths; the whole
\* canvas without bounds
CropRegion(canvas, bounds) ==
  IF bounds = Null
    THEN [srcX |-> 0, srcY |-> 0, srcW |-> canvas.width, srcH |-> canvas.height]
    ELSE [srcX |-> Floor(Times(NumberOf(bounds.minX, 1000), canvas.width)),
          srcY |-> Floor(Times(NumberOf(bounds.minY, 1000), canvas.height)),
          srcW |-> Ceil(Times(Minus(NumberOf(bounds.maxX, 1000), NumberOf(bounds.minX, 1000)),
                              canvas.width)),
          srcH |-> Ceil(Times(Minus(NumberOf(bounds.maxY, 1000), NumberOf(bounds.minY, 1000)),
                              canvas.height))]

\* outputWidth, outputHeight: srcAspect = srcW / srcH is Infinity for srcH = 0
\* and NaN for 0 / 0; a canvas dimension set to NaN is 0
OutputSize(crop, width, height) ==
  IF crop.srcH = 0
    THEN IF crop.srcW > 0
           THEN [width |-> width, height |-> 0]
           ELSE [width |-> 0, height |-> height]
    ELSE IF crop.srcW * height > width * crop.srcH
           THEN [width |-> width, height |-> RoundDiv(width * crop.srcH, crop.srcW)]
           ELSE [width |-> RoundDiv(height * crop.srcW, crop.srcH), height |-> height]

\* mutant: reading back an empty rectangle yields an empty ImageData
ReadBackThrows_Never(canvas, out) == FALSE

\* ctx.drawImage throws for a source canvas without width or height,
\* ctx.getImageData throws for a rectangle without width or height
ReadBackThrows(canvas, out) ==
  \/ canvas.width = 0 \/ canvas.height = 0
  \/ out.width = 0 \/ out.height = 0

\* mutant: the delay is computed in milliseconds
frameDelay_Millis == RoundDiv(1000, TARGET_FPS)

\* Math.round(100 / TARGET_FPS), hundredths of a second
frameDelay == RoundDiv(100, TARGET_FPS)

\* a progress value passed to onProgress, as an exact fraction
Fraction(num, den) == [num |-> num, den |-> den]

\* mutant: the capture phase reports the whole fraction of frames captured
CaptureProgress_Whole(i, n) == Fraction(i + 1, n)

\* onProgress?.((i + 1) / targetFrameCount * 0.5)
CaptureProgress(i, n) == Fraction(i + 1, 2 * n)

\* onProgress?.(0.5), onProgress?.(0.6) around buildGlobalPalette
PaletteProgress == << Fraction(1, 2), Fraction(6, 10) >>

\* onProgress?.(0.6 + (i / frames.length) * 0.4)
EncodeProgress(i, count) == Fraction(6 * count + 4 * i, 10 * count)

\* onProgress?.(1)
BlobProgress == Fraction(1, 1)

\* mutant: the frames keep what the previous frame drew
AddFrameOptions_NoDisposal == [delay |-> frameDelay, transparent |-> 0, disposal |-> 0]

\* the options of every gif.addFrame call
AddFrameOptions == [delay |-> frameDelay, transparent |-> 0, disposal |-> 2]

(***************************************************************************)
(* The GIF89a byte stream of the encoder (GifWriter).  Bytes are 0..255,   *)
(* 16-bit fields are little-endian, LZW codes are packed low bit first.    *)
(***************************************************************************)
Pow2(n) == 2 ^ n

U16(v) == << v % 256, v \div 256 >>

\* "GIF89a", logical screen descriptor with a global colour table of 256
\* entries, background index 0, no aspect ratio
GifHeaderBytes(width, height) ==
  << 71, 73, 70, 56, 57, 97 >> \o U16(width) \o U16(height) \o << 135, 0, 0 >>

\* the colour table: r, g, b of every packed entry
ColorTableBytes(packed) ==
  [b \in 1..(3 * Len(packed)) |->
     LET c == packed[(b + 2) \div 3]
     IN CASE b % 3 = 1 -> c \div 65536
          [] b % 3 = 2 -> (c \div 256) % 256
          [] OTHER -> c % 256]

\* NETSCAPE2.0 application extension carrying the loop count
LoopExtensionBytes(loop) ==
  << 33, 255, 11, 78, 69, 84, 83, 67, 65, 80, 69, 50, 46, 48, 3, 1 >>
    \o U16(loop) \o << 0 >>

\* graphic control extension: disposal, transparency flag, delay, index
GraphicControlBytes(opts) ==
  << 33, 249, 4, opts.disposal * 4 + 1 >> \o U16(opts.delay)
    \o << opts.transparent, 0 >>

\* image descriptor without a local colour table
ImageDescriptorBytes(x, y, w, h) ==
  << 44 >> \o U16(x) \o U16(y) \o U16(w) \o U16(h) \o << 0 >>

\* the LZW encoder state at the start of a code stream of minimum code size m
LzwStart(m, first) ==
  [m |-> m, size |-> m + 1, next |-> Pow2(m) + 2, table |-> << >>,
   ib |-> first, cur |-> 0, shift |-> 0, bytes |-> << >>]

\* emit one code with the current code size, moving out the full bytes
RECURSIVE LzwFlush(_)
LzwFlush(st) ==
  IF st.shift < 8
    THEN st
    ELSE LzwFlush([st EXCEPT !.bytes = Append(@, st.cur % 256),
                             !.cur = @ \div 256, !.shift = @ - 8])

LzwEmit(st, code) ==
  LzwFlush([st EXCEPT !.cur = @ + code * Pow2(st.shift), !.shift = @ + st.size])

\* the code of the string (prefix code ib, byte k), 0 if it is not in the table
LzwLookup(st, k) ==
  LET at == { c \in 1..Len(st.table) : st.table[c] = st.ib * 256 + k }
  IN IF at = {} THEN 0 ELSE (CHOOSE c \in at : TRUE) + Pow2(st.m) + 1

\* one index of the stream: extend the current string or emit it
LzwStep(st, k) ==
  LET found == LzwLookup(st, k)
  IN IF found # 0
       THEN [st EXCEPT !.ib = found]
       ELSE LET e == LzwEmit(st, st.ib)
            IN IF st.next = 4096
                 THEN [LzwEmit(e, Pow2(st.m)) EXCEPT
                         !.next = Pow2(st.m) + 2, !.size = st.m + 1,
                         !.table = << >>, !.ib = k]
                 ELSE [e EXCEPT
                         !.size = IF st.next >= Pow2(st.size) THEN @ + 1 ELSE @,
                         !.table = Append(@, st.ib * 256 + k),
                         !.next = @ + 1, !.ib = k]

\* the indices lo..hi of the stream, in order
RECURSIVE LzwRun(_, _, _, _)
LzwRun(st, indexed, lo, hi) ==
  IF lo > hi
    THEN st
    ELSE IF lo = hi
      THEN LzwStep(st, indexed[lo])
      ELSE LET mid == (lo + hi) \div 2
           IN CHOOSE r \in { LzwRun(s1, indexed, mid + 1, hi) :
                             s1 \in { LzwRun(st, indexed, lo, mid) } } : TRUE

\* the bytes of the code stream of a frame: clear code, the strings, the last
\* string, end of information, the bits left over
LzwBytes(indexed, m) ==
  LET s0 == LzwEmit(LzwStart(m, indexed[1]), Pow2(m))
      s1 == LzwRun(s0, indexed, 2, Len(indexed))
      s2 == LzwEmit(LzwEmit(s1, s1.ib), Pow2(m) + 1)
  IN IF s2.shift > 0 THEN Append(s2.bytes, s2.cur % 256) ELSE s2.bytes

\* data sub-blocks of at most 255 bytes, closed by an empty block
RECURSIVE SubBlocks(_)
SubBlocks(bytes) ==
  IF Len(bytes) = 0
    THEN << 0 >>
    ELSE LET n == Min(255, Len(bytes))
         IN << n >> \o SubSeq(bytes, 1, n) \o SubBlocks(SubSeq(bytes, n + 1, Len(bytes)))

\* everything addFrame writes for one frame
GifFrameBytes(x, y, w, h, indexed, opts) ==
  GraphicControlBytes(opts) \o ImageDescriptorBytes(x, y, w, h) \o << 8 >>
    \o (CHOOSE b \in { SubBlocks(l) : l \in { LzwBytes(indexed, 8) } } : TRUE)

\* bytes written at position p of a buffer of the given size: what does not
\* fit is dropped, the position moves on
WriteBytes(gif, bytes) ==
  [gif EXCEPT !.p = @ + Len(bytes),
              !.bytes = SubSeq(@ \o bytes, 1, Min(gif.size, Len(@) + Len(bytes)))]

\* mutant: the buffer is sized by the pixels alone
bufferSize_NoSlack(out, count) == out.width * out.height * count * 2

\* const bufferSize = outputWidth * outputHeight * frames.length * 2 + 10000
bufferSize(out, count) == out.width * out.height * count * 2 + 10000

\* new GifWriter(buffer, outputWidth, outputHeight, { palette, loop: 0 })
NewGifWriter(size, out, palette) ==
  LET packed == [k \in 1..Len(palette) |-> Packed(palette[k])]
  IN WriteBytes([width |-> out.width, height |-> out.height,
                 palette |-> packed, loop |-> 0, frames |-> << >>,
                 size |-> size, p |-> 0, bytes |-> << >>],
                GifHeaderBytes(out.width, out.height) \o ColorTableBytes(packed)
                  \o LoopExtensionBytes(0))

\* gif.addFrame(0, 0, outputWidth, outputHeight, indexed, options)
AddFrame(gif, indexed, opts) ==
  WriteBytes([gif EXCEPT !.frames =
                Append(@, [x |-> 0, y |-> 0, w |-> gif.width, h |-> gif.height,
                           indexed |-> indexed, delay |-> opts.delay,
                           transparent |-> opts.transparent,
                           disposal |-> opts.disposal,
                           has_local_palette |-> FALSE])],
             GifFrameBytes(0, 0, gif.width, gif.height, indexed, opts))

\* gif.end(): the trailer is written, the position is returned
GifEnd(gif) == WriteBytes(gif, << 59 >>)

\* buffer.slice(0, gif.end())
BlobData(gif) ==
  LET ended == GifEnd(gif)
  IN SubSeq(ended.bytes, 1, Min(ended.p, Len(ended.bytes)))

(***************************************************************************)
(* The reader of a GIF byte stream (GifReader): the logical screen, the    *)
(* loop count and, for every image, its rectangle, its graphic control     *)
(* fields and its pixel indices.  Positions are 1-based; a stream that     *)
(* ends early or is malformed reads as BadGif.  Interlaced images are not  *)
(* read.                                                                   *)
(***************************************************************************)
BadGif == [ok |-> FALSE, width |-> 0, height |-> 0, loop |-> -1, frames |-> << >>]

\* the graphic control fields of an image that has no such extension
NoGraphicControl == [delay |-> 0, transparent |-> -1, disposal |-> 0]

ByteAt(bytes, p) == IF p >= 1 /\ p <= Len(bytes) THEN bytes[p] ELSE -1

ReadU16(bytes, p) == ByteAt(bytes, p) + 256 * ByteAt(bytes, p + 1)

\* the data sub-blocks from position p up to their empty block
RECURSIVE ReadSubBlocks(_, _, _)
ReadSubBlocks(bytes, p, data) ==
  LET n == ByteAt(bytes, p)
  IN IF n = -1 \/ p + n > Len(bytes)
       THEN [ok |-> FALSE, data |-> data, p |-> p]
       ELSE IF n = 0
         THEN [ok |-> TRUE, data |-> data, p |-> p + 1]
         ELSE ReadSubBlocks(bytes, p + n + 1, data \o SubSeq(bytes, p + 1, p + n))

\* the LZW decoder state at the start of a code stream of minimum code size m
UnlzwStart(m) ==
  [m |-> m, size |-> m + 1, next |-> Pow2(m) + 2, table |-> << >>,
   prev |-> -1, cur |-> 0, shift |-> 0, out |-> << >>,
   done |-> FALSE, ok |-> TRUE]

\* the string of a code: a literal, or an entry of the table
UnlzwString(st, code) ==
  IF code < Pow2(st.m) THEN << code >> ELSE st.table[code - Pow2(st.m) - 1]

\* one code of the stream
UnlzwCode(st, code) ==
  IF code = Pow2(st.m)
    THEN [st EXCEPT !.size = st.m + 1, !.next = Pow2(st.m) + 2,
                    !.table = << >>, !.prev = -1]
    ELSE IF code = Pow2(st.m) + 1
      THEN [st EXCEPT !.done = TRUE]
      ELSE IF st.prev = -1
        THEN IF code < Pow2(st.m)
               THEN [st EXCEPT !.out = Append(@, code), !.prev = code]
               ELSE [st EXCEPT !.ok = FALSE]
        ELSE IF code > st.next
          THEN [st EXCEPT !.ok = FALSE]
          ELSE LET ps == UnlzwString(st, st.prev)
                   entry == IF code < st.next
                              THEN UnlzwString(st, code)
                              ELSE Append(ps, ps[1])
                   grown == st.next < 4096
               IN [st EXCEPT
                     !.out = @ \o entry, !.prev = code,
                     !.table = IF grown THEN Append(@, Append(ps, entry[1])) ELSE @,
                     !.next = IF grown THEN @ + 1 ELSE @,
                     !.size = IF grown /\ st.next + 1 = Pow2(st.size) /\ st.size < 12
                                THEN @ + 1 ELSE @]

\* take the codes that the collected bits hold
RECURSIVE UnlzwDrain(_)
UnlzwDrain(st) ==
  IF st.done \/ ~st.ok \/ st.shift < st.size
    THEN st
    ELSE UnlzwDrain(UnlzwCode([st EXCEPT !.cur = @ \div Pow2(st.size),
                                          !.shift = @ - st.size],
                              st.cur % Pow2(st.size)))

\* one byte of the code stream, low bit first
UnlzwByte(st, b) ==
  IF st.done \/ ~st.ok
    THEN st
    ELSE UnlzwDrain([st EXCEPT !.cur = @ + b * Pow2(st.shift), !.shift = @ + 8])

\* the bytes lo..hi of the code stream, in order
RECURSIVE UnlzwRun(_, _, _, _)
UnlzwRun(st, data, lo, hi) ==
  IF lo > hi
    THEN st
    ELSE IF lo = hi
      THEN UnlzwByte(st, data[lo])
      ELSE LET mid == (lo + hi) \div 2
           IN CHOOSE r \in { UnlzwRun(s1, data, mid + 1, hi) :
                             s1 \in { UnlzwRun(st, data, lo, mid) } } : TRUE

\* the pixel indices of an image of count pixels
Unlzw(data, m, count) ==
  LET st == CHOOSE r \in { UnlzwRun(UnlzwStart(m), data, 1, Len(data)) } : TRUE
  IN [ok |-> st.ok /\ Len(st.out) = count, indexed |-> st.out]

\* the image whose descriptor is at position p
ReadImage(bytes, p, gce) ==
  IF p + 9 > Len(bytes) \/ (bytes[p + 9] \div 64) % 2 = 1
    THEN BadGif
    ELSE LET flags == bytes[p + 9]
             q == p + 10 + (IF flags >= 128 THEN 3 * Pow2((flags % 8) + 1) ELSE 0)
             m == ByteAt(bytes, q)
             w == ReadU16(bytes, p + 5)
             h == ReadU16(bytes, p + 7)
         IN IF m < 2 \/ m > 8
              THEN BadGif
              ELSE CHOOSE r \in
                     { IF ~blocks.ok
                         THEN BadGif
                         ELSE CHOOSE f \in
                                { IF ~px.ok
                                    THEN BadGif
                                    ELSE [ok |-> TRUE, p |-> blocks.p,
                                          frame |-> [x |-> ReadU16(bytes, p + 1),
                                                     y |-> ReadU16(bytes, p + 3),
                                                     w |-> w, h |-> h,
                                                     indexed |-> px.indexed,
                                                     delay |-> gce.delay,
                                                     transparent |-> gce.transparent,
                                                     disposal |-> gce.disposal,
                                                     has_local_palette |-> flags >= 128]] :
                                  px \in { Unlzw(blocks.data, m, w * h) } } : TRUE :
                       blocks \in { ReadSubBlocks(bytes, q + 1, << >>) } } : TRUE

\* the blocks from position p up to the trailer
RECURSIVE ReadBlocks(_, _, _, _)
ReadBlocks(bytes, p, gce, gif) ==
  LET tag == ByteAt(bytes, p)
      label == ByteAt(bytes, p + 1)
  IN IF tag = 59
       THEN gif
       ELSE IF tag = 33 /\ label = 249
         THEN IF p + 7 > Len(bytes) \/ bytes[p + 2] # 4 \/ bytes[p + 7] # 0
                THEN BadGif
                ELSE ReadBlocks(bytes, p + 8,
                                [delay |-> ReadU16(bytes, p + 4),
                                 transparent |-> IF bytes[p + 3] % 2 = 1
                                                   THEN bytes[p + 6] ELSE -1,
                                 disposal |-> (bytes[p + 3] \div 4) % 8],
                                gif)
         ELSE IF tag = 33 /\ label = 255 /\ p + 18 <= Len(bytes)
                 /\ SubSeq(bytes, p + 2, p + 15)
                      = << 11, 78, 69, 84, 83, 67, 65, 80, 69, 50, 46, 48, 3, 1 >>
                 /\ bytes[p + 18] = 0
           THEN ReadBlocks(bytes, p + 19, gce,
                           [gif EXCEPT !.loop = ReadU16(bytes, p + 16)])
           ELSE IF tag = 33 /\ label \in {1, 254, 255}
             THEN LET skipped == ReadSubBlocks(bytes, p + 2, << >>)
                  IN IF skipped.ok
                       THEN ReadBlocks(bytes, skipped.p, gce, gif)
                       ELSE BadGif
             ELSE IF tag = 44
               THEN CHOOSE r \in
                      { IF image.ok
                          THEN ReadBlocks(bytes, image.p, NoGraphicControl,
                                          [gif EXCEPT !.frames = Append(@, image.frame)])
                          ELSE BadGif :
                        image \in { ReadImage(bytes, p, gce) } } : TRUE
               ELSE BadGif

\* new GifReader(data): numFrames, loopCount, frameInfo and the pixel indices
GifRead(bytes) ==
  IF Len(bytes) < 13
       \/ SubSeq(bytes, 1, 6) \notin { << 71, 73, 70, 56, 57, 97 >>,
                                       << 71, 73, 70, 56, 55, 97 >> }
    THEN BadGif
    ELSE LET flags == bytes[11]
             table == IF flags >= 128 THEN 3 * Pow2((flags % 8) + 1) ELSE 0
         IN IF 13 + table > Len(bytes)
              THEN BadGif
              ELSE ReadBlocks(bytes, 14 + table, NoGraphicControl,
                              [ok |-> TRUE, width |-> ReadU16(bytes, 7),
                               height |-> ReadU16(bytes, 9), loop |-> -1,
                               frames |-> << >>])

(***************************************************************************)
(* What the source canvas shows while frame i is read back: an input of    *)
(* captureGif, given as the colour of pixel j (1..count) of the read-back. *)
(***************************************************************************)
Scenes == {"blank", "near", "text", "gradient"}

ChromaKeys == { Rgb(0, 0, 0), Rgb(255, 0, 255) }

\* a colour within the tolerance of the chroma key, different from it
NearKey(key) ==
  Rgb(IF key.r > 128 THEN key.r - 4 ELSE key.r + 4,
      IF key.g > 128 THEN key.g - 2 ELSE key.g + 2, key.b)

\* a colour just outside the tolerance: one channel differs by exactly 5
EdgeKey(key) == Rgb(IF key.r > 128 THEN key.r - 5 ELSE key.r + 5, key.g, key.b)

TextColors == << Rgb(200, 0, 0), Rgb(0, 200, 0), Rgb(0, 0, 0) >>

\* 384 distinct colours, neighbours two apart in red
Gradient(j) == Rgb(2 * (j % 128), 200, j \div 128)

ScenePixel(scene, i, j, count, key) ==
  CASE scene = "blank" -> key
    [] scene = "near" -> IF j % 2 = 1 THEN NearKey(key) ELSE EdgeKey(key)
    [] scene = "text" -> TextColors[1 + ((j + i) % 3)]
    [] OTHER -> IF i = 0 /\ j = count /\ count > 2 THEN EdgeKey(key)
                ELSE IF i = 0 /\ j = count - 1 /\ count > 2 THEN Rgb(41, 200, 0)
                ELSE Gradient(j + 10 * i)

\* ctx.getImageData(0, 0, outputWidth, outputHeight) of frame i
ReadBack(scene, i, out, key) ==
  [j \in 1..(out.width * out.height) |->
     ScenePixel(scene, i, j, out.width * out.height, key)]

(***************************************************************************)
(* State.                                                                  *)
(***************************************************************************)
VARIABLES
  SHOW_CALIBRATION,     \* build flag: one calibration step per frame
  config,               \* App: the current TextConfig, or Null
  isGenerating,         \* App: the 100 ms timer of handleGenerate is pending
  isCapturing,          \* App
  captureProgress,      \* App, thousandths
  screenBounds,         \* App: bounds reported by the Scene, or Null
  calibratedConfigKey,  \* Scene
  screenBoundsRef,      \* Scene: what getScreenBounds() returns
  calibratedZ,          \* SceneContent: Null while CameraCalibrator is mounted
  textGroup,            \* textGroupRef.current: Null, or the group and its box
  cal,                  \* calibrationRef.current of the mounted CameraCalibrator
  elapsedTime,          \* clock.elapsedTime, kept modulo the cycle duration
  renderedElapsed,      \* clock time of the pose last drawn on the canvas
  export,               \* position and locals of handleExportGif / captureGif
  rafFired,             \* the export's requestAnimationFrame callback is due
  lastGif,              \* the blob handed to downloadBlob by the last export
  capture,              \* a call of captureGif on given inputs: position and locals
  call                  \* a call of a pure function on given inputs, and its result

vars == << SHOW_CALIBRATION, config, isGenerating, isCapturing, captureProgress,
           screenBounds, calibratedConfigKey, screenBoundsRef, calibratedZ,
           textGroup, cal, elapsedTime, renderedElapsed, export, rafFired,
           lastGif, capture, call >>

\* the state of the App and its Scene
uiVars == << SHOW_CALIBRATION, config, isGenerating, isCapturing, captureProgress,
             screenBounds, calibratedConfigKey, screenBoundsRef, calibratedZ,
             textGroup, cal, elapsedTime, renderedElapsed, export, rafFired,
             lastGif >>

\* no call of captureGif on given inputs is being followed
NoCapture ==
  [pc |-> "none", canvas |-> Null, options |-> Null, scene |-> "blank",
   crop |-> Null, out |-> Null, n |-> 0, i |-> 0, frames |-> << >>,
   colorCounts |-> << >>, palette |-> << >>, gif |-> Null, blob |-> Null,
   reported |-> << >>]

\* no call of a pure function is being followed
NoCall == [fn |-> "none"]

appVars == << config, isGenerating, isCapturing, captureProgress, screenBounds >>
sceneVars == << calibratedConfigKey, screenBoundsRef, calibratedZ, textGroup, cal >>
exportVars == << export, rafFired, lastGif >>

\* handleExportGif is not running: no closure, no options, no frames
IdleExport ==
  [pc |-> "idle", config |-> Null, options |-> Null, fault |-> "none", at |-> 0,
   i |-> 0, n |-> 0, frames |-> << >>]

\* the last call of handleExportGif returned early, before any work
AbortedExport == [IdleExport EXCEPT !.pc = "aborted"]

\* the last call of handleExportGif ended in its catch block (failure alert)
FailedExport == [IdleExport EXCEPT !.pc = "failed"]

\* no call of handleExportGif is in progress
ExportAtRest == export.pc \in {"idle", "aborted", "failed"}

Init ==
  /\ SHOW_CALIBRATION = FALSE
  /\ config = Null
  /\ isGenerating = FALSE
  /\ isCapturing = FALSE
  /\ captureProgress = 0
  /\ screenBounds = Null
  /\ calibratedConfigKey = Null
  /\ screenBoundsRef = Null
  /\ calibratedZ = Null
  /\ textGroup = Null
  /\ cal = FreshCalibration
  /\ elapsedTime = 0
  /\ renderedElapsed = 0
  /\ export = IdleExport
  /\ rafFired = FALSE
  /\ lastGif = Null
  /\ capture = NoCapture
  /\ call = NoCall

\* mutant: a mounted text group counts as loaded whatever its box
geometryReady_Mounted == textGroup # Null

\* the frame callback gets past its early returns: textGroupRef.current is set,
\* and not (testBox.isEmpty() || testBox.max.x - testBox.min.x < 0.01)
geometryReady ==
  /\ textGroup # Null
  /\ ~boxIsEmpty(textGroup.box)
  /\ textGroup.box.maxX - textGroup.box.minX >= minWidth

\* App: const isCalibrating = config !== null && screenBounds === null
AppIsCalibrating == config # Null /\ screenBounds = Null

\* Scene: const isCalibrating = configKey !== null && calibratedConfigKey !== configKey
SceneIsCalibrating == config # Null /\ calibratedConfigKey # configKeyOf(config)

\* the Generate button is rendered enabled
GenerateEnabled == ~isGenerating /\ ~isCapturing

\* the export buttons are rendered and enabled
ExportEnabled == config # Null /\ ~isCapturing /\ ~AppIsCalibrating

\* mutant: a frame runs a whole sweep of samples
stepsPerFrame_WholeSweep == totalSteps

\* const stepsPerFrame = SHOW_CALIBRATION ? 1 : 10
stepsPerFrame == IF SHOW_CALIBRATION THEN stepsPerFrameSlow ELSE stepsPerFrameFast

\* user events, timers and font loads are dispatched between animation frames
BetweenFrames == ~rafFired

(***************************************************************************)
(* App: handleGenerate and its timer.                                      *)
(***************************************************************************)
\* click on Generate with a non-blank input text
HandleGenerate ==
  /\ BetweenFrames
  /\ GenerateEnabled
  /\ isGenerating' = TRUE
  /\ screenBounds' = Null
  /\ UNCHANGED << capture, call, SHOW_CALIBRATION, config, isCapturing, captureProgress,
                  sceneVars, elapsedTime, renderedElapsed, exportVars >>

\* the setTimeout callback: setConfig(randomizeTextConfig(inputText)); a changed
\* key remounts SceneContent (fresh calibratedZ, calibrator and text group)
GenerateTimer ==
  /\ BetweenFrames
  /\ isGenerating
  /\ \E newConfig \in Configs :
       /\ config' = newConfig
       /\ IF configKeyOf(newConfig) # configKeyOf(config)
            THEN /\ calibratedZ' = Null
                 /\ cal' = FreshCalibration
                 /\ textGroup' = Null
                 /\ \E e \in 0..(newConfig.cycleDuration - 1) :
                      /\ \E d \in FrameDeltas : e % d = 0
                      /\ config = Null => e = 0
                      /\ elapsedTime' = e
            ELSE UNCHANGED << calibratedZ, cal, textGroup, elapsedTime >>
  /\ isGenerating' = FALSE
  /\ UNCHANGED << capture, call, SHOW_CALIBRATION, isCapturing, captureProgress, screenBounds,
                  calibratedConfigKey, screenBoundsRef, renderedElapsed,
                  exportVars >>

\* what new THREE.Box3().setFromObject(group) gives while the text loads: the
\* empty box of a group without geometry, a box narrower than 0.01, a box of
\* exactly that width, and the box of the finished geometry
LoadingBoxes(cfg) ==
  << [minX |-> 1, maxX |-> -1, minY |-> 1, maxY |-> -1, minZ |-> 1, maxZ |-> -1],
     [minX |-> 0, maxX |-> 0, minY |-> -cfg.halfH, maxY |-> cfg.halfH,
      minZ |-> -cfg.halfD, maxZ |-> cfg.halfD],
     [minX |-> 0, maxX |-> minWidth, minY |-> -cfg.halfH, maxY |-> cfg.halfH,
      minZ |-> -cfg.halfD, maxZ |-> cfg.halfD],
     [minX |-> -cfg.halfW, maxX |-> cfg.halfW, minY |-> -cfg.halfH, maxY |-> cfg.halfH,
      minZ |-> -cfg.halfD, maxZ |-> cfg.halfD] >>

\* how far the loading of the text group has come: 0 while it is not mounted
LoadingStage ==
  IF textGroup = Null
    THEN 0
    ELSE CHOOSE k \in 1..Len(LoadingBoxes(config)) : LoadingBoxes(config)[k] = textGroup.box

\* the font or a glyph geometry finished loading: the text group is mounted,
\* or its geometry grows
GeometryLoads ==
  /\ BetweenFrames
  /\ config # Null
  /\ \E k \in (LoadingStage + 1)..Len(LoadingBoxes(config)) :
       textGroup' = [box |-> LoadingBoxes(config)[k]]
  /\ UNCHANGED << capture, call, SHOW_CALIBRATION, appVars, calibratedConfigKey, screenBoundsRef,
                  calibratedZ, cal, elapsedTime, renderedElapsed, exportVars >>

\* mutant: every frame that finds the calibrator done reports again
onCalibratedCalled_WheneverDone(before, after) == after.phase = "done"

\* the frame that took the calibrator from one state to the next called
\* onCalibrated: it ran the branch of the bounds loop that sets the phase to done
onCalibratedCalled(before, after) == before.phase # "done" /\ after.phase = "done"

(***************************************************************************)
(* One animation frame of the render loop: the clock advances, the         *)
(* useFrame callbacks run, the scene is drawn.  The render loop registered  *)
(* its callback before any export did, so it runs first in every frame.    *)
(***************************************************************************)
Tick ==
  /\ config # Null
  /\ ~rafFired
  /\ \E d \in FrameDeltas,
        cal2 \in { IF calibratedZ = Null
                     THEN CalibratorFrame(cal, config, geometryReady, stepsPerFrame)
                     ELSE cal } :
       LET advanced == (elapsedTime + d) % config.cycleDuration
           completed == onCalibratedCalled(cal, cal2)
           bounds == [b |-> PaddedBounds(cal2.screenBounds, config), of |-> config]
       IN /\ cal' = cal2
          /\ IF completed
               THEN /\ elapsedTime' = 0
                    /\ calibratedZ' = Some(cal2.finalZ)
                    /\ screenBoundsRef' = bounds
                    /\ calibratedConfigKey' = configKeyOf(config)
                    /\ screenBounds' = bounds
               ELSE /\ elapsedTime' = advanced
                    /\ UNCHANGED << calibratedZ, screenBoundsRef, calibratedConfigKey,
                                    screenBounds >>
          /\ renderedElapsed' = elapsedTime'
  /\ rafFired' = ~ExportAtRest
  /\ UNCHANGED << capture, call, SHOW_CALIBRATION, config, isGenerating, isCapturing,
                  captureProgress, textGroup, export, lastGif >>

(***************************************************************************)
(* App: handleExportGif and captureGif.                                    *)
(***************************************************************************)
\* what can make captureGif throw: nothing, the read-back of one of the frames
\* (drawImage / getImageData), or the palette building, allocation and
\* encoding after the loop
CaptureFaults == {"none", "readback", "encode"}

\* sceneRef.current?.getCanvas(): the Canvas is rendered only with a config
getCanvas == IF config = Null THEN Null ELSE [canvas |-> TRUE]

\* mutant: the handler does not return early
ExportPrecondition_None == TRUE

\* if (!canvas || !config) return;
ExportPrecondition == getCanvas # Null /\ config # Null

\* mutant: the finally block resets the flag but not the progress
ExportFinally_KeepsProgress ==
  /\ isCapturing' = FALSE
  /\ captureProgress' = captureProgress

\* finally { setIsCapturing(false); setCaptureProgress(0); }
ExportFinally ==
  /\ isCapturing' = FALSE
  /\ captureProgress' = 0

\* mutant: a frame is put in front of the frames captured before it
PushFrame_Unshift(frames, frame) == << frame >> \o frames

\* frames.push(ctx.getImageData(...))
PushFrame(frames, frame) == Append(frames, frame)

\* the encode loop: one addFrame per captured frame, in the order of the array
EncodedFrames(frames) == [f \in 1..Len(frames) |-> frames[f].index]

\* a call of handleExportGif, up to its first await (or its early return)
HandleExportGif ==
  /\ BetweenFrames
  /\ ExportAtRest
  /\ IF ExportPrecondition
       THEN /\ isCapturing' = TRUE
            /\ captureProgress' = 0
            /\ elapsedTime' = 0
            /\ export' = [IdleExport EXCEPT !.pc = "awaitReset", !.config = config]
            /\ lastGif' = Null
       ELSE /\ export' = AbortedExport
            /\ UNCHANGED << isCapturing, captureProgress, elapsedTime, lastGif >>
  /\ UNCHANGED << capture, call, SHOW_CALIBRATION, config, isGenerating, screenBounds, sceneVars,
                  renderedElapsed, rafFired >>

\* click on one of the export buttons
ClickExport ==
  /\ ExportEnabled
  /\ HandleExportGif

\* captureGif resolved: downloadBlob, then the finally block
FinishExport(frames, opts) ==
  /\ lastGif' = [frames |-> EncodedFrames(frames),
                 cycleDuration |-> opts.cycleDuration]
  /\ ExportFinally
  /\ export' = IdleExport

\* mutant: the catch block downloads the frames captured so far
ExportFails_PartialDownload ==
  /\ lastGif' = [frames |-> EncodedFrames(export.frames),
                 cycleDuration |-> export.config.cycleDuration]
  /\ ExportFinally
  /\ export' = FailedExport

\* captureGif threw: the catch block reports it, then the finally block
ExportFails ==
  /\ lastGif' = lastGif
  /\ ExportFinally
  /\ export' = FailedExport

\* after the frame awaited for the clock reset: read the bounds, build the
\* options, enter captureGif up to the first await of its capture loop
StartCapture ==
  /\ rafFired
  /\ export.pc = "awaitReset"
  /\ \E fault \in CaptureFaults,
        at \in 0..Max(0, targetFrameCount(export.config.cycleDuration) - 1) :
       LET opts == ExportOptions(export.config, screenBoundsRef)
           n == targetFrameCount(opts.cycleDuration)
       IN IF n = 0
            THEN /\ IF fault = "encode"
                      THEN ExportFails
                      ELSE FinishExport(<< >>, opts)
                 /\ UNCHANGED elapsedTime
            ELSE /\ fault # "readback" => at = 0
                 /\ export' = [export EXCEPT !.pc = "capture", !.options = opts,
                                             !.fault = fault, !.at = at,
                                             !.i = 0, !.n = n, !.frames = << >>]
                 /\ elapsedTime' = IF opts.hasSetAnimationT
                                     THEN setT(0, n, opts.cycleDuration)
                                     ELSE elapsedTime
                 /\ UNCHANGED << isCapturing, captureProgress, lastGif >>
  /\ rafFired' = FALSE
  /\ UNCHANGED << capture, call, SHOW_CALIBRATION, config, isGenerating, screenBounds, sceneVars,
                  renderedElapsed >>

\* one iteration of the capture loop after its await: read frame i back; after
\* the last frame the palette is built and the frames are encoded
CaptureFrame ==
  /\ rafFired
  /\ export.pc = "capture"
  /\ LET i == export.i
         n == export.n
         frame == [index |-> i, shown |-> renderedElapsed,
                   crop |-> export.options.screenBounds]
         frames == PushFrame(export.frames, frame)
     IN IF export.fault = "readback" /\ i = export.at
          THEN /\ ExportFails
               /\ UNCHANGED elapsedTime
          ELSE IF i + 1 < n
            THEN /\ export' = [export EXCEPT !.i = i + 1, !.frames = frames]
                 /\ captureProgress' = ((i + 1) * 500) \div n
                 /\ elapsedTime' = IF export.options.hasSetAnimationT
                                     THEN setT(i + 1, n, export.options.cycleDuration)
                                     ELSE elapsedTime
                 /\ UNCHANGED << isCapturing, lastGif >>
            ELSE /\ IF export.fault = "encode"
                      THEN ExportFails
                      ELSE FinishExport(frames, export.options)
                 /\ UNCHANGED elapsedTime
  /\ rafFired' = FALSE
  /\ UNCHANGED << capture, call, SHOW_CALIBRATION, config, isGenerating, screenBounds, sceneVars,
                  renderedElapsed >>

Next ==
  \/ HandleGenerate
  \/ GenerateTimer
  \/ GeometryLoads
  \/ Tick
  \/ ClickExport
  \/ StartCapture
  \/ CaptureFrame

Spec == Init /\ [][Next]_vars

(***************************************************************************)
(* The calibrator on its own: one mounted CameraCalibrator for any config  *)
(* of the table, in either build mode, driven by render frames only.       *)
(***************************************************************************)
CalConfigs == { ConfigTable[i] : i \in 1..Len(ConfigTable) }

CalInit ==
  /\ SHOW_CALIBRATION \in BOOLEAN
  /\ config \in CalConfigs
  /\ isGenerating = FALSE
  /\ isCapturing = FALSE
  /\ captureProgress = 0
  /\ screenBounds = Null
  /\ calibratedConfigKey = Null
  /\ screenBoundsRef = Null
  /\ calibratedZ = Null
  /\ textGroup = Null
  /\ cal = FreshCalibration
  /\ elapsedTime = 0
  /\ renderedElapsed = 0
  /\ export = IdleExport
  /\ rafFired = FALSE
  /\ lastGif = Null
  /\ capture = NoCapture
  /\ call = NoCall

CalNext ==
  \/ GeometryLoads
  \/ Tick

CalSpec == CalInit /\ [][CalNext]_vars

\* the render loop keeps delivering frames while the canvas is mounted
CalFairSpec == CalSpec /\ WF_vars(Tick)

(***************************************************************************)
(* The export handler called directly, whatever the buttons show: with or   *)
(* without a config (and so a canvas), at any moment of the calibration.    *)
(***************************************************************************)
ExportInit ==
  /\ SHOW_CALIBRATION = FALSE
  /\ config \in Configs \cup {Null}
  /\ isGenerating = FALSE
  /\ isCapturing = FALSE
  /\ captureProgress = 0
  /\ screenBounds = Null
  /\ calibratedConfigKey = Null
  /\ screenBoundsRef = Null
  /\ calibratedZ = Null
  /\ textGroup = Null
  /\ cal = FreshCalibration
  /\ elapsedTime = 0
  /\ renderedElapsed = 0
  /\ export = IdleExport
  /\ rafFired = FALSE
  /\ lastGif = Null
  /\ capture = NoCapture
  /\ call = NoCall

ExportNext ==
  \/ GeometryLoads
  \/ Tick
  \/ HandleExportGif
  \/ StartCapture
  \/ CaptureFrame

ExportSpec == ExportInit /\ [][ExportNext]_vars

(***************************************************************************)
(* captureGif on its own: one call on a canvas, options and scene content  *)
(* drawn from the inputs below, followed statement by statement.           *)
(***************************************************************************)
SmallCanvases ==
  { [width |-> 4, height |-> 2], [width |-> 0, height |-> 2],
    [width |-> 4, height |-> 0], [width |-> 0, height |-> 0] }

ScreenBoundsInputs ==
  { Null,
    [minX |-> 250, maxX |-> 750, minY |-> 0, maxY |-> 1000],
    [minX |-> 500, maxX |-> 500, minY |-> 0, maxY |-> 1000],
    [minX |-> 0, maxX |-> 1000, minY |-> 400, maxY |-> 400] }

\* cycle durations (ms) of one, two and ten frames at 12 fps
SmallCycles == {100, 150, 800}

\* cycle durations (ms) of no, one and two frames at 12 fps
LargeCycles == {40, 100, 150}

CaptureInputs ==
  { [canvas |-> c, scene |-> sc,
     options |-> [width |-> 2, height |-> 2, cycleDuration |-> cd,
                  screenBounds |-> b, chromaKeyRgb |-> key]] :
      c \in SmallCanvases, sc \in Scenes, cd \in SmallCycles,
      b \in ScreenBoundsInputs, key \in ChromaKeys }
  \cup
  { [canvas |-> [width |-> 260, height |-> 1], scene |-> sc,
     options |-> [width |-> 260, height |-> 260, cycleDuration |-> cd,
                  screenBounds |-> Null, chromaKeyRgb |-> key]] :
      sc \in {"text", "gradient"}, cd \in LargeCycles, key \in ChromaKeys }

GifInit ==
  /\ SHOW_CALIBRATION = FALSE
  /\ config = Null
  /\ isGenerating = FALSE
  /\ isCapturing = FALSE
  /\ captureProgress = 0
  /\ screenBounds = Null
  /\ calibratedConfigKey = Null
  /\ screenBoundsRef = Null
  /\ calibratedZ = Null
  /\ textGroup = Null
  /\ cal = FreshCalibration
  /\ elapsedTime = 0
  /\ renderedElapsed = 0
  /\ export = IdleExport
  /\ rafFired = FALSE
  /\ lastGif = Null
  /\ call = NoCall
  /\ \E input \in CaptureInputs :
       capture = [NoCapture EXCEPT !.pc = "call", !.canvas = input.canvas,
                                   !.options = input.options, !.scene = input.scene]

\* entry of captureGif: crop region, output size, frame count; then the first
\* iteration of the capture loop up to its await
CaptureGifEnter ==
  /\ capture.pc = "call"
  /\ LET crop == CropRegion(capture.canvas, capture.options.screenBounds)
         out == OutputSize(crop, capture.options.width, capture.options.height)
         n == targetFrameCount(capture.options.cycleDuration)
     IN capture' = [capture EXCEPT !.crop = crop, !.out = out, !.n = n, !.i = 0,
                                   !.pc = IF n = 0 THEN "palette" ELSE "await"]
  /\ UNCHANGED << uiVars, call >>

\* after the await of iteration i: fillRect, drawImage, getImageData, push
CaptureGifReadBack ==
  /\ capture.pc = "await"
  /\ IF ReadBackThrows(capture.canvas, capture.out)
       THEN capture' = [capture EXCEPT !.pc = "rejected"]
       ELSE LET frame == ReadBack(capture.scene, capture.i, capture.out,
                                  capture.options.chromaKeyRgb)
            IN capture' = [capture EXCEPT
                             !.frames = PushFrame(@, frame),
                             !.reported = Append(@, CaptureProgress(capture.i, capture.n)),
                             !.i = @ + 1,
                             !.pc = IF capture.i + 1 < capture.n
                                      THEN "await" ELSE "palette"]
  /\ UNCHANGED << uiVars, call >>

\* buildGlobalPalette, the packed palette and the GifWriter
CaptureGifBuildPalette ==
  /\ capture.pc = "palette"
  /\ \E counts \in { CountColors(<< >>, capture.frames, 1,
                                 capture.options.chromaKeyRgb) } :
       \E palette \in { PaletteOf(counts, capture.options.chromaKeyRgb) } :
         capture' = [capture EXCEPT !.colorCounts = counts, !.palette = palette,
                                    !.reported = @ \o PaletteProgress,
                                    !.gif = NewGifWriter(
                                              bufferSize(capture.out, Len(capture.frames)),
                                              capture.out, palette),
                                    !.pc = "encode"]
  /\ UNCHANGED << uiVars, call >>

\* one iteration of the encode loop: indexFrame and gif.addFrame
CaptureGifAddFrame ==
  /\ capture.pc = "encode"
  /\ Len(capture.gif.frames) < Len(capture.frames)
  /\ LET k == Len(capture.gif.frames) + 1
         indexed == indexFrame(capture.frames[k], capture.palette,
                               capture.options.chromaKeyRgb)
     IN capture' = [capture EXCEPT
                      !.gif = AddFrame(@, indexed, AddFrameOptions),
                      !.reported = Append(@, EncodeProgress(k - 1, Len(capture.frames)))]
  /\ UNCHANGED << uiVars, call >>

\* buffer.slice(0, gif.end()), the Blob, return
CaptureGifResolve ==
  /\ capture.pc = "encode"
  /\ Len(capture.gif.frames) = Len(capture.frames)
  /\ capture' = [capture EXCEPT !.pc = "resolved",
                                !.reported = Append(@, BlobProgress),
                                !.blob = [type |-> "image/gif", gif |-> capture.gif,
                                          data |-> BlobData(capture.gif)]]
  /\ UNCHANGED << uiVars, call >>

GifNext ==
  \/ CaptureGifEnter
  \/ CaptureGifReadBack
  \/ CaptureGifBuildPalette
  \/ CaptureGifAddFrame
  \/ CaptureGifResolve

GifSpec == GifInit /\ [][GifNext]_vars

(***************************************************************************)
(* Pure functions on their own: one call on inputs drawn from the sets     *)
(* below, with nothing mounted.                                            *)
(***************************************************************************)
NothingMounted ==
  /\ SHOW_CALIBRATION = FALSE
  /\ config = Null
  /\ isGenerating = FALSE
  /\ isCapturing = FALSE
  /\ captureProgress = 0
  /\ screenBounds = Null
  /\ calibratedConfigKey = Null
  /\ screenBoundsRef = Null
  /\ calibratedZ = Null
  /\ textGroup = Null
  /\ cal = FreshCalibration
  /\ elapsedTime = 0
  /\ renderedElapsed = 0
  /\ export = IdleExport
  /\ rafFired = FALSE
  /\ lastGif = Null
  /\ capture = NoCapture

FilenameAlphabet == { "a", "Z", "7", " ", "-", "_", "\n" }

\* every text over the alphabet of at most MaxTextLen characters
ShortTexts ==
  UNION { [1..n -> FilenameAlphabet] : n \in 0..MaxTextLen }

\* a text of n letters q
Filler(n) == [i \in 1..n |-> "q"]

\* the short texts, alone and at the end of a line that reaches the limit
FilenameTexts ==
  { Filler(n) \o t : n \in {0, filenameLimit - 2, filenameLimit - 1}, t \in ShortTexts }

FilenameInit ==
  /\ NothingMounted
  /\ call \in { [fn |-> "filename", text |-> t, done |-> FALSE, result |-> << >>] :
                  t \in FilenameTexts }

\* the filename expression of handleExportGif
ComputeFilename ==
  /\ call.fn = "filename"
  /\ ~call.done
  /\ call' = [call EXCEPT !.done = TRUE, !.result = ExportFilename(call.text)]
  /\ UNCHANGED << uiVars, capture >>

FilenameNext == ComputeFilename

FilenameSpec == FilenameInit /\ [][FilenameNext]_vars

(***************************************************************************)
(* The Frame Driver on its own: the functions ClockController hands out,   *)
(* called in any order on a clock that runs freely in between.  The call   *)
(* record keeps the cycle duration, whether setT was the last thing to     *)
(* touch the clock (and its argument), and what the last getT returned.    *)
(***************************************************************************)
ClockCycles == {800, 1200, 1500}

\* time added to clock.elapsedTime between two calls
ClockDeltas == {17, 700}

RECURSIVE GCD(_, _)
GCD(a, b) == IF b = 0 THEN a ELSE GCD(b, a % b)

\* the arguments t = k / TSteps(c) are those the units of the model (1 ms,
\* thousandths of a cycle) hold exactly
TSteps(cycleDuration) == GCD(cycleDuration, 1000)

ClockInit ==
  /\ NothingMounted
  /\ call \in { [fn |-> "clock", cycleDuration |-> c, sinceSet |-> FALSE, arg |-> 0,
                 got |-> FALSE, result |-> 0] : c \in ClockCycles }

\* the clock runs: rendered frames add their time
ClockRuns ==
  /\ call.fn = "clock"
  /\ \E d \in ClockDeltas :
       /\ elapsedTime + d <= MaxElapsed
       /\ elapsedTime' = elapsedTime + d
  /\ call' = [call EXCEPT !.sinceSet = FALSE, !.arg = 0, !.got = FALSE, !.result = 0]
  /\ UNCHANGED << SHOW_CALIBRATION, appVars, sceneVars, renderedElapsed, exportVars,
                  capture >>

\* reset(): clock.start(); clock.elapsedTime = 0
ClockReset ==
  /\ call.fn = "clock"
  /\ elapsedTime' = 0
  /\ call' = [call EXCEPT !.sinceSet = FALSE, !.arg = 0, !.got = FALSE, !.result = 0]
  /\ UNCHANGED << SHOW_CALIBRATION, appVars, sceneVars, renderedElapsed, exportVars,
                  capture >>

\* setT(t) for t = k / TSteps
ClockSetT ==
  /\ call.fn = "clock"
  /\ \E k \in 0..(TSteps(call.cycleDuration) - 1) :
       /\ elapsedTime' = setT(k, TSteps(call.cycleDuration), call.cycleDuration)
       /\ call' = [call EXCEPT !.sinceSet = TRUE, !.arg = k, !.got = FALSE, !.result = 0]
  /\ UNCHANGED << SHOW_CALIBRATION, appVars, sceneVars, renderedElapsed, exportVars,
                  capture >>

\* getT()
ClockGetT ==
  /\ call.fn = "clock"
  /\ ~call.got
  /\ call' = [call EXCEPT !.got = TRUE,
                          !.result = getT(elapsedTime, call.cycleDuration)]
  /\ UNCHANGED << uiVars, capture >>

ClockNext ==
  \/ ClockRuns
  \/ ClockReset
  \/ ClockSetT
  \/ ClockGetT

ClockSpec == ClockInit /\ [][ClockNext]_vars

(***************************************************************************)
(* The Transform Evaluator on its own.                                     *)
(***************************************************************************)
\* the animation angles handed to getFlipOffset reach two turns either way
MaxTurns == 2

\* WEIGHTED_INITIAL_ANGLES, in degrees
InitialAngles ==
  { [x |-> 0, y |-> 0], [x |-> -20, y |-> 0], [x |-> 0, y |-> -20], [x |-> 0, y |-> 20],
    [x |-> -30, y |-> -30], [x |-> -30, y |-> 30] }

\* initial angles getFlipOffset is called with: those of the table on either
\* axis, and some no config carries
FlipInitialAngles ==
  { a.x : a \in InitialAngles } \cup { a.y : a \in InitialAngles } \cup {-400, 90, 180}

FlipInit ==
  /\ NothingMounted
  /\ call \in { [fn |-> "getFlipOffset", animationAngle |-> a, initialAngle |-> i,
                 done |-> FALSE, result |-> 0] :
                a \in (-MaxTurns * TWO_PI)..(MaxTurns * TWO_PI), i \in FlipInitialAngles }

CallGetFlipOffset ==
  /\ call.fn = "getFlipOffset"
  /\ ~call.done
  /\ call' = [call EXCEPT !.done = TRUE,
                          !.result = getFlipOffset(call.animationAngle, call.initialAngle)]
  /\ UNCHANGED << uiVars, capture >>

FlipNext == CallGetFlipOffset

FlipSpec == FlipInit /\ [][FlipNext]_vars

ANIMATION_TYPES ==
  { "spinY", "spinX", "spinZ", "swingY", "swingX", "swingZ", "bounce", "pulse", "wave" }

\* amplitudes (hundredths) randomizeTextConfig draws
PoseAmplitudes == {25, 100}

PoseConfigs ==
  { [type |-> ty, amplitude |-> amp, initialAngle |-> ia] :
    ty \in ANIMATION_TYPES, amp \in PoseAmplitudes, ia \in InitialAngles }

\* the transform is applied at t = k / stepsPerCycle and at t + 1
PoseInit ==
  /\ NothingMounted
  /\ call \in { [fn |-> "applyAnimationTransform", config |-> cfg, k |-> k, done |-> FALSE,
                 atT |-> << >>, atNext |-> << >>] :
                cfg \in PoseConfigs, k \in (-stepsPerCycle)..stepsPerCycle }

ApplyTwice ==
  /\ call.fn = "applyAnimationTransform"
  /\ ~call.done
  /\ call' = [call EXCEPT !.done = TRUE,
                !.atT = applyAnimationTransform(call.config, call.k),
                !.atNext = applyAnimationTransform(call.config, call.k + stepsPerCycle)]
  /\ UNCHANGED << uiVars, capture >>

PoseNext == ApplyTwice

PoseSpec == PoseInit /\ [][PoseNext]_vars

(***************************************************************************)
(* The crop region of captureGif on its own.                               *)
(***************************************************************************)
\* bounds coordinates (thousandths) and canvas sizes the crop is computed for
CropFractions == {0, 250, 333, 700, 1000}

CropSizes == {0, 4, 9, 10, 640}

CropInit ==
  /\ NothingMounted
  /\ call \in { [fn |-> "cropRegion",
                 canvas |-> [width |-> w, height |-> h],
                 bounds |-> [minX |-> x0, maxX |-> x1, minY |-> y0, maxY |-> y1],
                 done |-> FALSE,
                 result |-> [srcX |-> 0, srcY |-> 0, srcW |-> 0, srcH |-> 0]] :
                w \in CropSizes, h \in CropSizes,
                x0 \in CropFractions, x1 \in CropFractions,
                y0 \in CropFractions, y1 \in CropFractions }
  /\ call.bounds.minX <= call.bounds.maxX
  /\ call.bounds.minY <= call.bounds.maxY

ComputeCropRegion ==
  /\ call.fn = "cropRegion"
  /\ ~call.done
  /\ call' = [call EXCEPT !.done = TRUE, !.result = CropRegion(call.canvas, call.bounds)]
  /\ UNCHANGED << uiVars, capture >>

CropNext == ComputeCropRegion

CropSpec == CropInit /\ [][CropNext]_vars

(***************************************************************************)
(* Vocabulary of the properties.                                           *)
(***************************************************************************)
\* the trial distances 3, 3.3, 3.6, ... below the cap
TrialDistances == { startZ + i * stepSize : i \in 0..((maxZ - startZ) \div stepSize) }

SampleSteps == 0..(totalSteps - 1)

\* every one of the 48 samples passes the containment test at distance z
AllPass(cfg, z) ==
  \A s \in SampleSteps : ~overflowDetected(cfg, s % stepsPerCycle, z)

\* the geometry at sample k lies inside the view of a camera at distance z
FitsView(cfg, k, z) ==
  /\ \A c \in Corners(TestBox(cfg, k)) : containsPoint(c, z)
  /\ \A v \in MeshVertices(cfg, k) :
       LET p == ProjectToScreen(v, z)
       IN p.x >= 0 /\ p.x <= 1000 /\ p.y >= 0 /\ p.y <= 1000

\* C1 as stated: for every config, once the calibrator is done the geometry at
\* the final distance fits the view at every one of the 48 sampled t values.
C1_FitsForEveryConfig ==
  cal.phase = "done" =>
    \A s \in SampleSteps : FitsView(config, s % stepsPerCycle, cal.finalZ)

\* C1 amended: once the calibrator is done with a final distance below the cap
\* of 20, the geometry at the final distance fits the view at all 48 samples.
C1_FitsBelowCap ==
  (cal.phase = "done" /\ cal.finalZ < maxZ) =>
    \A s \in SampleSteps : FitsView(config, s % stepsPerCycle, cal.finalZ)

C1_Witness == cal.phase = "done" /\ cal.finalZ < maxZ /\ cal.finalZ > startZ

\* C2: the export buttons are never enabled while the calibrator of the current
\* config is in phase waiting, calibrating or bounds.
C2_ExportDisabledWhileCalibrating ==
  ExportEnabled => cal.phase = "done"

\* C3: while a config is current, the bounds held by the Scene (getScreenBounds)
\* and by the App were computed for that config, and a calibrator that has not
\* started yet is in the fresh state.
C3_NoStaleBounds ==
  config # Null =>
    /\ screenBoundsRef # Null => screenBoundsRef.of = config
    /\ screenBounds # Null => screenBounds.of = config
    /\ cal.phase = "waiting" => cal = FreshCalibration

\* an upper bound on the sample steps the calibrator still has to run
StepsLeft(c) ==
  CASE c.phase = "done" -> 0
    [] c.phase = "bounds" -> totalSteps - c.animationStep
    [] OTHER -> totalSteps
                + ((maxZ + stepSize - c.currentZ) \div stepSize) * (totalSteps + 1)
                - c.animationStep

\* C4: once the phase has left waiting, under fair frames the calibrator
\* reaches done, and every frame that runs it strictly lowers the bound on the
\* sample steps left (each overflow raises the distance, the cap ends the search).
C4_Terminates ==
  /\ (cal.phase # "waiting") ~> (cal.phase = "done")
  /\ [][(cal.phase \notin {"waiting", "done"} /\ cal' # cal)
          => StepsLeft(cal') < StepsLeft(cal)]_vars

C4_Witness == cal.phase = "done" /\ cal.currentZ >= maxZ

\* C5: a search that ended below the cap ended at the first trial distance at
\* which all 48 samples pass; every smaller trial distance has an overflow.
C5_FirstPassingDistance ==
  (cal.phase \in {"bounds", "done"} /\ cal.finalZ < maxZ) =>
    /\ cal.finalZ \in TrialDistances
    /\ AllPass(config, cal.finalZ)
    /\ \A z \in TrialDistances : z < cal.finalZ => ~AllPass(config, z)

C5_Witness == cal.phase = "done" /\ cal.finalZ = startZ + 2 * stepSize

\* C6: the final distance is between 3 and the cap 20; once an overflow has
\* pushed the trial distance to or past the cap the search is over and the
\* final distance, also the one reported to SceneContent, is exactly 20.
C6_FinalWithinRange ==
  /\ cal.finalZ >= startZ /\ cal.finalZ <= maxZ
  /\ cal.currentZ >= maxZ => (cal.phase \in {"bounds", "done"} /\ cal.finalZ = maxZ)
  /\ calibratedZ # Null =>
       (calibratedZ.value = cal.finalZ /\ cal.phase = "done" /\ screenBoundsRef # Null)

C6_Witness == calibratedZ = Some(maxZ) /\ cal.currentZ >= maxZ

\* C7: while the calibrator of the current config has not reached done, the
\* Scene reports the config as calibrating; a calibrator that has not started
\* is in phase waiting with distance 3 and sample index 0.
C7_SceneReportsCalibrating ==
  (config # Null /\ cal.phase # "done") =>
    /\ SceneIsCalibrating
    /\ cal.phase = "waiting" => (cal.currentZ = startZ /\ cal.animationStep = 0)

\* the distance and bounds a calibration of cfg has to yield, stated directly
ExpectedZ(cfg) ==
  LET ok == { z \in TrialDistances : AllPass(cfg, z) }
  IN IF ok = {} THEN maxZ ELSE SetMin(ok)

ExpectedBounds(cfg) ==
  LET z == ExpectedZ(cfg)
      pts == UNION { { ProjectToScreen(v, z) : v \in MeshVertices(cfg, k) } :
                       k \in 0..(stepsPerCycle - 1) }
      raw == [minX |-> Min(1000, SetMin({ p.x : p \in pts })),
              maxX |-> Max(0, SetMax({ p.x : p \in pts })),
              minY |-> Min(1000, SetMin({ p.y : p \in pts })),
              maxY |-> Max(0, SetMax({ p.y : p \in pts }))]
  IN PaddedBounds(raw, cfg)

\* C8: the result of a calibration is a function of the config alone: whatever
\* the number of waiting frames and the slicing into frames, the final distance
\* and the reported bounds are the ones the config determines.
C8_Deterministic ==
  cal.phase = "done" =>
    /\ cal.finalZ = ExpectedZ(config)
    /\ calibratedZ = Some(ExpectedZ(config))
    /\ screenBoundsRef.b = ExpectedBounds(config)

C8_Witness == cal.phase = "done" /\ cal.finalZ > startZ /\ screenBoundsRef # Null

\* the integer nearest to cycleDuration x 12 (cycleDuration in milliseconds)
IsRoundOf(n, cycleDuration) ==
  LET x1000 == cycleDuration * TARGET_FPS
  IN 2 * (1000 * n - x1000) <= 1000 /\ 2 * (x1000 - 1000 * n) < 1000

\* C9: captureGif captures exactly round(cycleDuration x 12) frames and the
\* blob it yields holds exactly that many frames.
C9_FrameCount ==
  /\ export.pc = "capture" =>
       /\ IsRoundOf(export.n, export.options.cycleDuration)
       /\ Len(export.frames) = export.i
       /\ export.i < export.n
  /\ lastGif # Null => IsRoundOf(Len(lastGif.frames), lastGif.cycleDuration)

C9_Witness == lastGif # Null /\ lastGif.cycleDuration = 1200 /\ Len(lastGif.frames) = 14

\* C10: every frame read back during an export shows the pose of t = i / frameCount.
C10_FrameShowsItsT ==
  \A f \in 1..Len(export.frames) :
    export.frames[f].shown
      = setT(export.frames[f].index, export.n, export.options.cycleDuration)

\* C11: frames are captured in strictly increasing t order (frame i carries
\* t = i / frameCount, so t grows with the position in the array), every
\* captured frame is kept, and the frames are added to the GIF in the order of
\* capture with none repeated or left out.
C11_FramesInOrder ==
  /\ \A f \in 1..Len(export.frames) : export.frames[f].index = f - 1
  /\ \A f, g \in 1..Len(export.frames) :
       f < g => export.frames[f].index * export.n < export.frames[g].index * export.n
  /\ export.pc = "capture" => Len(export.frames) = export.i
  /\ lastGif # Null =>
       \A f \in 1..Len(lastGif.frames) : lastGif.frames[f] = f - 1

C11_Witness == lastGif # Null /\ Len(lastGif.frames) >= 10

\* C19: a call of the export handler without a canvas or without a config
\* returns before any work: the capturing flag, the progress, the animation
\* clock and the last file are left as they were, and no capture is started.
C19_AbortsBeforeAnyWork ==
  [][(getCanvas = Null \/ config = Null)
       => /\ UNCHANGED << isCapturing, captureProgress, elapsedTime,
                          renderedElapsed, lastGif >>
          /\ export' \in {export, AbortedExport}]_vars

C19_Witness == export = AbortedExport /\ config = Null /\ ~isCapturing

\* C20: when an export attempt ends, by a download or by a failure, the
\* capturing flag is false and the progress 0, a failed attempt leaves no
\* file, nothing of the attempt is left pending, and an export only starts
\* from a click on an enabled export button.
C20_ExportEndsClean ==
  [][/\ (~ExportAtRest /\ export'.pc \notin {"awaitReset", "capture"})
          => /\ ~isCapturing' /\ captureProgress' = 0
             /\ export' \in {IdleExport, FailedExport}
             /\ ~rafFired'
             /\ export'.pc = "failed" <=> export.fault # "none"
             /\ export'.pc = "failed" => lastGif' = Null
             /\ export'.pc = "idle" => lastGif' # Null
     /\ (ExportAtRest /\ export'.pc \notin {"idle", "aborted", "failed"})
          => (ExportEnabled /\ BetweenFrames /\ export'.pc = "awaitReset")]_vars

C20_Witness ==
  export = FailedExport /\ ~isCapturing /\ captureProgress = 0 /\ lastGif = Null

\* the palette has been built
PaletteBuilt == capture.pc \in {"encode", "resolved"}

\* the pixels of the captured frames as (frame, position) pairs
PixelsAt == { << f, j >> : f \in 1..Len(capture.frames),
                           j \in 1..(capture.out.width * capture.out.height) }

\* each channel differs from the chroma key by less than 5
WithinTolerance(p) ==
  LET key == capture.options.chromaKeyRgb
  IN /\ p.r - key.r < 5 /\ key.r - p.r < 5
     /\ p.g - key.g < 5 /\ key.g - p.g < 5
     /\ p.b - key.b < 5 /\ key.b - p.b < 5

\* C12: whatever the captured frames, none or with more than 255 colours, the
\* palette has exactly 256 entries, entry 0 is the chroma key, and the global
\* colour table handed to the encoder is that palette.
C12_PaletteShape ==
  PaletteBuilt =>
    /\ Len(capture.palette) = 256
    /\ capture.palette[1] = capture.options.chromaKeyRgb
    /\ Len(capture.gif.palette) = 256
    /\ capture.gif.palette[1] = Packed(capture.options.chromaKeyRgb)

C12_Witness == PaletteBuilt /\ Len(capture.colorCounts) > 255 /\ capture.n = 2

\* C13: in every indexed frame a pixel within the tolerance of the chroma key
\* has index 0, so a frame that is all chroma key is indexed all 0.
C13_ChromaIndexesToZero ==
  capture.gif # Null =>
    \A f \in 1..Len(capture.gif.frames) :
      LET data == capture.frames[f]
          indexed == capture.gif.frames[f].indexed
      IN /\ Len(indexed) = Len(data)
         /\ \A j \in 1..Len(data) : WithinTolerance(data[j]) => indexed[j] = 0
         /\ (\A j \in 1..Len(data) : data[j] = capture.options.chromaKeyRgb)
              => \A j \in 1..Len(data) : indexed[j] = 0

C13_Witness ==
  /\ capture.pc = "resolved" /\ capture.scene = "near"
  /\ \E j \in 1..Len(capture.frames[1]) :
       /\ capture.frames[1][j] # capture.options.chromaKeyRgb
       /\ capture.gif.frames[1].indexed[j] = 0

\* index k is, among the palette indices lo..255, the lowest one at the
\* smallest squared distance from colour p
NearestFrom(lo, k, p) ==
  /\ k \in lo..255
  /\ \A m \in lo..255 :
       LET dk == Dist(p, capture.palette[k + 1])
           dm == Dist(p, capture.palette[m + 1])
       IN dk < dm \/ (dk = dm /\ k <= m)

\* C14 as stated: a pixel outside the tolerance gets the index of the nearest
\* entry of the palette, the lowest index among equally near entries.
C14_NearestEntry ==
  capture.gif # Null =>
    \A f \in 1..Len(capture.gif.frames) :
      \A j \in 1..Len(capture.frames[f]) :
        ~WithinTolerance(capture.frames[f][j]) =>
          NearestFrom(0, capture.gif.frames[f].indexed[j], capture.frames[f][j])

\* C14 amended: a pixel outside the tolerance gets the index of the nearest
\* entry among the entries 1..255 (never the transparent entry 0), the lowest
\* index among equally near ones.
C14_NearestVisibleEntry ==
  capture.gif # Null =>
    \A f \in 1..Len(capture.gif.frames) :
      \A j \in 1..Len(capture.frames[f]) :
        ~WithinTolerance(capture.frames[f][j]) =>
          NearestFrom(1, capture.gif.frames[f].indexed[j], capture.frames[f][j])

\* a pixel whose colour is not in the palette and lies between two entries
C14_Witness ==
  /\ capture.pc = "resolved" /\ capture.scene = "gradient"
  /\ Len(capture.colorCounts) > 255
  /\ \E j \in 1..Len(capture.frames[1]) :
       /\ capture.frames[1][j] = Rgb(41, 200, 0)
       /\ capture.palette[capture.gif.frames[1].indexed[j] + 1] = Rgb(40, 200, 0)

\* how often colour c occurs in the captured frames
Frequency(c) == Cardinality({ x \in PixelsAt : capture.frames[x[1]][x[2]] = c })

\* the place of the first occurrence of colour c, counting the pixels of the
\* captured frames frame after frame
FirstSeen(c) ==
  SetMin({ (x[1] - 1) * (capture.out.width * capture.out.height) + x[2] :
             x \in { y \in PixelsAt : capture.frames[y[1]][y[2]] = c } })

\* colour c is more frequent than d, or as frequent and seen first
RanksBefore(c, d) ==
  \E fc \in {Frequency(c)}, fd \in {Frequency(d)} :
    fc > fd \/ (fc = fd /\ FirstSeen(c) < FirstSeen(d))

\* the distinct colours outside the tolerance in the captured frames
Survivors ==
  { c \in { capture.frames[x[1]][x[2]] : x \in PixelsAt } : ~WithinTolerance(c) }

\* C15: entries 1..255 of the palette are the distinct colours outside the
\* tolerance, most frequent first and first seen first among equally frequent
\* ones; a colour left out ranks after every colour that is in.
C15_MostFrequentFirst ==
  PaletteBuilt =>
    \E surv \in {Survivors} :
      LET k == Min(255, Cardinality(surv))
          inside == { capture.palette[i + 1] : i \in 1..k }
      IN /\ inside \subseteq surv
         /\ Cardinality(inside) = k
         /\ \A i \in 1..(k - 1) :
              RanksBefore(capture.palette[i + 1], capture.palette[i + 2])
         /\ \A c \in surv \ inside : RanksBefore(capture.palette[k + 1], c)

C15_Witness ==
  /\ PaletteBuilt /\ Len(capture.colorCounts) > 255
  /\ \E a, b \in 1..Len(capture.colorCounts) :
       a < b /\ capture.colorCounts[a].count < capture.colorCounts[b].count

\* C16: the encoder gets one frame per captured frame, each with delay 8
\* hundredths, transparent index 0 and disposal 2 and no palette of its own;
\* the stream has loop count 0 and the one global colour table.
C16_FrameMetadata ==
  /\ capture.gif # Null =>
       /\ capture.gif.loop = 0
       /\ Len(capture.gif.palette) = 256
       /\ Len(capture.gif.frames) <= Len(capture.frames)
       /\ \A f \in 1..Len(capture.gif.frames) :
            LET fr == capture.gif.frames[f]
            IN /\ fr.delay = 8 /\ fr.transparent = 0 /\ fr.disposal = 2
               /\ ~fr.has_local_palette
               /\ 2 * (100 - fr.delay * 12) <= 12 /\ 2 * (fr.delay * 12 - 100) < 12
  /\ capture.pc = "resolved" =>
       /\ Len(capture.blob.gif.frames) = Len(capture.frames)
       /\ Len(capture.frames) = capture.n

C16_Witness == capture.pc = "resolved" /\ Len(capture.blob.gif.frames) = 10

\* the source canvas or the crop rectangle has no width or no height
DegenerateCrop ==
  /\ capture.crop # Null
  /\ \/ capture.canvas.width = 0 \/ capture.canvas.height = 0
     \/ capture.crop.srcW = 0 \/ capture.crop.srcH = 0

\* C18: with a canvas or crop rectangle of zero width or height captureGif is
\* rejected on the first read-back: no frame is ever captured, no palette or
\* encoder is made and no blob is returned.
C18_DegenerateCropFails ==
  /\ [](DegenerateCrop =>
         /\ capture.pc \in {"await", "rejected"}
         /\ capture.i = 0 /\ capture.frames = << >>
         /\ capture.gif = Null /\ capture.blob = Null)
  /\ [][(DegenerateCrop /\ capture' # capture) => capture'.pc = "rejected"]_vars

C18_Witness == DegenerateCrop /\ capture.pc = "rejected" /\ capture.canvas.width > 0

(***************************************************************************)
(* C17: reading the byte stream of the exported GIF back yields as many    *)
(* frames as were encoded, each with the pixel indices of the indexed      *)
(* buffer given to addFrame, in the same order, each with the recorded     *)
(* delay, and the loop count 0 of an endless loop.                         *)
(***************************************************************************)
C17_RoundTrip ==
  capture.pc = "resolved" =>
    \A r \in { GifRead(capture.blob.data) } :
      /\ r.ok
      /\ Len(r.frames) = Len(capture.gif.frames)
      /\ \A k \in 1..Len(r.frames) :
           /\ r.frames[k].indexed = capture.gif.frames[k].indexed
           /\ r.frames[k].delay = capture.gif.frames[k].delay
           /\ r.frames[k].delay = frameDelay
      /\ r.loop = 0

\* a GIF of two frames of 260 pixels with more than 255 colours was read back,
\* and one of ten frames
C17_Witness ==
  /\ capture.pc = "resolved"
  /\ Len(capture.gif.frames) = 2
  /\ Len(capture.gif.frames[1].indexed) = 260
  /\ capture.gif.frames[1].indexed # capture.gif.frames[2].indexed
  /\ Len(capture.colorCounts) > 255
  /\ Len(GifRead(capture.blob.data).frames) = 2

\* the searching phase takes its next sample of the sweep
SearchingSample == cal.phase = "calibrating" \/ (cal.phase = "waiting" /\ geometryReady)

\* C29: in the searching phase an overflowing sample raises the trial distance
\* by exactly the step 0.3 and puts the sample index back to 0; a passing
\* sample leaves the distance alone and moves the sample index on by one (the
\* last sample of a sweep ends the search at the unchanged distance); so the
\* trial distance is always 3 plus a whole number of steps.
C29_OverflowBacksOffOneStep ==
  /\ [](\E k \in 0..((maxZ - startZ) \div stepSize + 1) :
          cal.currentZ = startZ + k * stepSize)
  /\ [](cal.phase = "calibrating" =>
          \A c2 \in { CalibratingStep(cal, config) } :
            IF overflowDetected(config, cal.animationStep % stepsPerCycle, cal.currentZ)
              THEN c2.currentZ = cal.currentZ + stepSize /\ c2.animationStep = 0
              ELSE /\ c2.currentZ = cal.currentZ
                   /\ IF cal.animationStep + 1 < totalSteps
                        THEN c2 = [cal EXCEPT !.animationStep = @ + 1]
                        ELSE c2.phase = "bounds" /\ c2.finalZ = cal.currentZ)
  /\ [][(SHOW_CALIBRATION /\ SearchingSample /\ cal' # cal) =>
          IF overflowDetected(config, cal.animationStep % stepsPerCycle, cal.currentZ)
            THEN cal'.currentZ = cal.currentZ + stepSize /\ cal'.animationStep = 0
            ELSE /\ cal'.currentZ = cal.currentZ
                 /\ cal'.phase = "calibrating" =>
                      cal'.animationStep = cal.animationStep + 1]_vars

\* the sweep at distance 3.6 passed after exactly two overflows
C29_Witness ==
  /\ cal.phase = "calibrating"
  /\ cal.currentZ = startZ + 2 * stepSize
  /\ cal.animationStep = totalSteps - 1
  /\ SHOW_CALIBRATION

\* the calibrator runs sample steps in the next frame
CalibratorRuns ==
  /\ calibratedZ = Null
  /\ cal.phase # "done"
  /\ cal.phase = "waiting" => geometryReady

\* one sample step of the phase the calibrator is in
SampleStep(c, cfg) ==
  IF c.phase = "bounds"
    THEN BoundsStep(c, cfg)
    ELSE CalibratingStep([c EXCEPT !.phase = "calibrating"], cfg)

\* the calibrator state j sample steps after c
RECURSIVE AfterSamples(_, _, _)
AfterSamples(c, cfg, j) ==
  IF j = 0 THEN c ELSE AfterSamples(SampleStep(c, cfg), cfg, j - 1)

\* the phase whose samples a frame starting in state c takes
RunningPhase(c) == IF c.phase = "waiting" THEN "calibrating" ELSE c.phase

\* C28: a frame takes at most 10 sample steps (at most 1 when the calibration
\* is shown), all of one phase, and fewer than that only when the phase ended;
\* it starts from exactly the distance, sample index and bounds the frame
\* before left, and nothing but a frame of the calibrator changes them.
C28_TimeSliced ==
  [][IF CalibratorRuns /\ cal' # cal
       THEN \E j \in 1..(IF SHOW_CALIBRATION THEN 1 ELSE 10) :
              /\ cal' = AfterSamples(cal, config, j)
              /\ \A i \in 1..(j - 1) :
                   AfterSamples(cal, config, i).phase = RunningPhase(cal)
              /\ j < (IF SHOW_CALIBRATION THEN 1 ELSE 10)
                   => cal'.phase # RunningPhase(cal)
       ELSE cal' = cal]_vars

\* the fifth frame of the bounds phase starts at sample 40 with the bounds
\* accumulated by the four frames before it
C28_Witness ==
  /\ ~SHOW_CALIBRATION
  /\ cal.phase = "bounds"
  /\ cal.animationStep = 40
  /\ cal.screenBounds # EmptyBounds

\* the text group is mounted and its box is non-empty and at least 0.01 wide
TextBoxUsable ==
  /\ textGroup # Null
  /\ textGroup.box.minX <= textGroup.box.maxX
  /\ textGroup.box.minY <= textGroup.box.maxY
  /\ textGroup.box.minZ <= textGroup.box.maxZ
  /\ textGroup.box.maxX - textGroup.box.minX >= 1

\* C30: a calibrator in phase waiting is in its fresh state; a frame in which
\* the text group is missing or its box is empty or narrower than 0.01 leaves
\* it as it is, as does anything that is not a frame; the first frame that
\* finds a non-empty box at least 0.01 wide moves it to calibrating.
C30_WaitsForGeometry ==
  /\ [](cal.phase = "waiting" => cal = FreshCalibration)
  /\ [][cal.phase = "waiting" =>
          IF TextBoxUsable /\ textGroup' = textGroup
            THEN cal'.phase = "calibrating"
            ELSE cal' = cal]_vars

\* frames have passed while the mounted group had a box narrower than 0.01,
\* and the calibrator still waits
C30_Witness ==
  /\ cal.phase = "waiting"
  /\ textGroup # Null
  /\ textGroup.box.maxX = textGroup.box.minX
  /\ elapsedTime # 0

\* v is a screen coordinate between 0 and 1 (thousandths)
InUnitRange(v) == v >= 0 /\ v <= 1000

\* C26: the bounds the calibrator reports, as held by the Scene and by the
\* App, have minX, maxX, minY and maxY between 0 and 1, also when vertices
\* project outside the viewport and when the wave padding is added.
C26_BoundsInUnitSquare ==
  /\ screenBoundsRef # Null =>
       /\ InUnitRange(screenBoundsRef.b.minX) /\ InUnitRange(screenBoundsRef.b.maxX)
       /\ InUnitRange(screenBoundsRef.b.minY) /\ InUnitRange(screenBoundsRef.b.maxY)
  /\ screenBounds # Null =>
       /\ InUnitRange(screenBounds.b.minX) /\ InUnitRange(screenBounds.b.maxX)
       /\ InUnitRange(screenBounds.b.minY) /\ InUnitRange(screenBounds.b.maxY)

\* bounds were reported for a wave text at the distance cap whose vertices
\* project left of the viewport
C26_Witness ==
  /\ screenBoundsRef # Null
  /\ config.type = "wave"
  /\ cal.finalZ = maxZ
  /\ cal.screenBounds.minX < 0
  /\ cal.screenBounds.maxX > 1000

\* C21: a file is downloaded only by the step that ends a capture in which
\* nothing failed, and it then holds every frame of the cycle, each captured
\* frame encoded once in order; a capture in which the read-back of any frame
\* or the encoding fails ends as a failed export that downloads nothing, also
\* when frames had been captured before the failure.
C21_AllOrNothing ==
  [][/\ (lastGif' # lastGif /\ lastGif' # Null)
          => /\ export.pc = "capture" /\ export.fault = "none"
             /\ export.i + 1 = export.n
             /\ Len(lastGif'.frames) = export.n
             /\ \A f \in 1..export.n : lastGif'.frames[f] = f - 1
             /\ export' = IdleExport
     /\ (export.pc = "capture" /\ export.fault # "none")
          => (lastGif' = Null /\ export'.pc \in {"capture", "failed"})
     /\ (export.pc = "capture" /\ export'.pc = "failed")
          => (export.fault # "none" /\ lastGif' = Null)]_vars

\* three frames of an export have been captured and the read-back of the
\* fourth is about to fail
C21_Witness ==
  /\ export.pc = "capture"
  /\ export.fault = "readback"
  /\ export.at = 3
  /\ export.i = 3
  /\ Len(export.frames) = 3
  /\ rafFired

\* a <= b for two progress fractions
FractionLeq(a, b) == a.num * b.den <= b.num * a.den

\* C25: the k-th value reported during the capture of N frames is k/N x 0.5
\* and so at most 0.5; while frames are still being captured nothing else has
\* been reported; every value reported after the capture loop is at least 0.5
\* (and at most 1).
C25_CaptureIsFirstHalf ==
  /\ capture.pc = "await" => Len(capture.reported) = capture.i
  /\ \A k \in 1..Len(capture.reported) :
       IF k <= capture.n
         THEN /\ capture.reported[k].num * 2 * capture.n = k * capture.reported[k].den
              /\ FractionLeq(capture.reported[k], Fraction(1, 2))
         ELSE /\ FractionLeq(Fraction(1, 2), capture.reported[k])
              /\ FractionLeq(capture.reported[k], Fraction(1, 1))

\* all ten frames of a capture were captured and encoded: ten values were
\* reported by the capture loop, the last of them 0.5, and thirteen after it
C25_Witness ==
  /\ capture.pc = "resolved"
  /\ capture.n = 10
  /\ Len(capture.reported) = 23
  /\ capture.reported[10] = Fraction(10, 20)
  /\ capture.reported[23] = Fraction(1, 1)

\* the characters a file name may hold before its extension
FilenameCharacters ==
  { LowerCaseLetters[k] : k \in 1..Len(LowerCaseLetters) }
    \cup { DigitCharacters[k] : k \in 1..Len(DigitCharacters) } \cup { "_" }

\* the longest prefix of the text without a line break, with A-Z as a-z
LoweredFirstLine(text) ==
  LET n == CHOOSE m \in 0..Len(text) :
             /\ \A i \in 1..m : text[i] # "\n"
             /\ m < Len(text) => text[m + 1] = "\n"
  IN [i \in 1..n |->
        IF \E k \in 1..26 : UpperCaseLetters[k] = text[i]
          THEN LowerCaseLetters[CHOOSE k \in 1..26 : UpperCaseLetters[k] = text[i]]
          ELSE text[i]]

\* s with every maximal run of characters outside a-z, 0-9 as one underscore:
\* the characters kept are the letters and digits and the first of each run
RunsCollapsed(s) ==
  LET plain(i) == s[i] \in FilenameCharacters \ { "_" }
      kept == { i \in 1..Len(s) : plain(i) \/ i = 1 \/ plain(i - 1) }
      at(k) == CHOOSE i \in kept : Cardinality({ j \in kept : j <= i }) = k
  IN [k \in 1..Cardinality(kept) |-> IF plain(at(k)) THEN s[at(k)] ELSE "_"]

\* C27: the file name is the first line of the text, lower-cased, every
\* maximal run of characters outside a-z and 0-9 as one underscore, cut to its
\* first 30 characters, followed by ".gif"; before ".gif" it holds only a-z,
\* 0-9 and underscores, no two underscores in a row, and at most 30 characters.
C27_SanitizedFilename ==
  (call.fn = "filename" /\ call.done) =>
    LET name == call.result
        stem == SubSeq(name, 1, Len(name) - 4)
        wanted == RunsCollapsed(LoweredFirstLine(call.text))
    IN /\ Len(name) >= 4
       /\ SubSeq(name, Len(name) - 3, Len(name)) = << ".", "g", "i", "f" >>
       /\ Len(stem) <= 30
       /\ stem = SubSeq(wanted, 1, IF Len(wanted) < 30 THEN Len(wanted) ELSE 30)
       /\ \A i \in 1..Len(stem) : stem[i] \in FilenameCharacters
       /\ \A i \in 1..(Len(stem) - 1) : ~(stem[i] = "_" /\ stem[i + 1] = "_")

\* a line of 32 characters ending in a capital and a run of two hyphens got
\* its name: 30 characters, the capital lowered, the run cut off
C27_Witness ==
  /\ call.fn = "filename" /\ call.done
  /\ Len(call.text) = 32
  /\ SubSeq(call.text, 30, 32) = << "Z", "-", "-" >>
  /\ Len(call.result) = 34
  /\ call.result[30] = "z"

NormalisedTotal == (call.animationAngle + call.initialAngle) % TWO_PI

\* C23: getFlipOffset returns 0 or half a turn, and half a turn exactly when
\* the total angle (animation angle + initial angle, normalised to less than
\* a full turn) is strictly between a quarter turn and three quarters; with
\* initial angle 0 and the animation angle going from 0 to a full turn it is
\* 0 at both ends and at the quarter and three-quarter turn, and half a turn
\* everywhere between those two.
C23_FlipOffset ==
  (call.fn = "getFlipOffset" /\ call.done) =>
    /\ call.result \in {0, PI}
    /\ call.result = PI <=> (NormalisedTotal > HALF_PI /\ NormalisedTotal < 3 * HALF_PI)
    /\ (call.initialAngle = 0 /\ call.animationAngle \in {0, HALF_PI, 3 * HALF_PI, TWO_PI})
         => call.result = 0
    /\ (call.initialAngle = 0 /\ call.animationAngle > HALF_PI
          /\ call.animationAngle < 3 * HALF_PI) => call.result = PI

\* half a turn for a negative total angle: -160 - 20 = -180 degrees, which
\* normalises to 180
C23_Witness ==
  /\ call.fn = "getFlipOffset" /\ call.done
  /\ call.animationAngle = -160
  /\ call.initialAngle = -20
  /\ call.result = PI

\* the same rotation: the same initial orientation, the same axis, and angles
\* a whole number of turns apart
SameRotation(p, q) ==
  /\ p.initialQuat = q.initialQuat
  /\ p.axis = q.axis
  /\ (p.angle - q.angle) % TWO_PI = 0

PhaseRank(phase) ==
  CASE phase = "waiting" -> 0
    [] phase = "calibrating" -> 1
    [] phase = "bounds" -> 2
    [] phase = "done" -> 3

\* C31: the phase of a calibrator only moves forward, one phase at a time, in
\* the order waiting, calibrating, bounds, done: a sample step of the search
\* leaves it searching or starts the bounds phase, a sample step of the bounds
\* phase leaves it there or ends in done, and no frame moves it back or past
\* a phase.  Done is terminal: a frame callback that runs on a done state
\* returns it unchanged, and no later step changes the phase, the final
\* distance or the accumulated bounds.
C31_PhaseOrder ==
  /\ [](cal.phase = "calibrating" =>
          CalibratingStep(cal, config).phase \in {"calibrating", "bounds"})
  /\ [](cal.phase = "bounds" => BoundsStep(cal, config).phase \in {"bounds", "done"})
  /\ [](cal.phase = "done" =>
          \A ready \in BOOLEAN, n \in {stepsPerFrameSlow, stepsPerFrameFast} :
            CalibratorFrame(cal, config, ready, n) = cal)
  /\ [][/\ PhaseRank(cal'.phase) >= PhaseRank(cal.phase)
        /\ PhaseRank(cal'.phase) <= PhaseRank(cal.phase) + 1
        /\ cal.phase = "done" => cal' = cal]_vars

\* frames keep coming after the calibrator of a config that ran into the cap
\* is done
C31_Witness ==
  /\ cal.phase = "done"
  /\ cal.finalZ = maxZ
  /\ elapsedTime > 0

\* the screen positions of the vertices of samples 0 .. n - 1 seen from z
ProjectedSamples(cfg, z, n) ==
  UNION { { ProjectToScreen(v, z) : v \in MeshVertices(cfg, j % stepsPerCycle) } :
            j \in 0..(n - 1) }

\* the accumulator after n samples taken from distance z, starting empty
MeasuredBounds(cfg, z, n) ==
  LET pts == ProjectedSamples(cfg, z, n)
  IN IF n = 0
       THEN [minX |-> 1000, maxX |-> 0, minY |-> 1000, maxY |-> 0]
       ELSE [minX |-> Min(1000, SetMin({ p.x : p \in pts })),
             maxX |-> Max(0, SetMax({ p.x : p \in pts })),
             minY |-> Min(1000, SetMin({ p.y : p \in pts })),
             maxY |-> Max(0, SetMax({ p.y : p \in pts }))]

\* C32: the bounds phase starts with the empty accumulator (minX = 1,
\* maxX = 0, minY = 1, maxY = 0) and sample index 0; all its samples are taken
\* from the frozen final distance, which no step of the phase changes; and it
\* ends in done only with the 48th sample (24 per cycle, 2 cycles).
C32_BoundsPhase ==
  /\ [](cal.phase \in {"bounds", "done"} =>
          /\ cal.screenBounds = MeasuredBounds(config, cal.finalZ, cal.animationStep)
          /\ cal.phase = "bounds" => cal.animationStep < stepsPerCycle * numCycles
          /\ cal.phase = "done" => cal.animationStep = stepsPerCycle * numCycles)
  /\ [][/\ (cal.phase # "bounds" /\ cal'.phase = "bounds") =>
             /\ cal'.animationStep = 0
             /\ cal'.screenBounds.minX = 1000 /\ cal'.screenBounds.maxX = 0
             /\ cal'.screenBounds.minY = 1000 /\ cal'.screenBounds.maxY = 0
        /\ cal.phase = "bounds" =>
             /\ cal'.finalZ = cal.finalZ
             /\ cal'.currentZ = cal.currentZ
             /\ cal'.animationStep >= cal.animationStep
             /\ cal'.phase = "done" <=> cal'.animationStep = stepsPerCycle * numCycles]_vars

\* the last sample of the bounds phase is due, for a search that ran into the
\* cap: the frozen distance 20 is not the last trial distance
C32_Witness ==
  /\ cal.phase = "bounds"
  /\ cal.animationStep = stepsPerCycle * numCycles - 1
  /\ cal.finalZ = maxZ
  /\ cal.currentZ > maxZ
  /\ cal.screenBounds.minX < cal.screenBounds.maxX

\* the bounds computed from the accumulator of the calibrator, for its config
FinalBounds == [b |-> PaddedBounds(cal.screenBounds, config), of |-> config]

\* C33: what onCalibrated does (the distance handed to SceneContent, the
\* bounds handed to the Scene and to the App, the calibrated key) happens in
\* the step that takes the calibrator to done and in no other step, so once
\* for each calibrator and never before it is done; the values are the final
\* distance and the bounds of the final accumulator, and the distance
\* SceneContent applies from then on is that final distance.
C33_ReportedOnceWhenDone ==
  /\ [](calibratedZ # Null <=> cal.phase = "done")
  /\ [](calibratedZ # Null => calibratedZ = Some(cal.finalZ))
  /\ [][IF cal.phase # "done" /\ cal'.phase = "done"
          THEN /\ calibratedZ = Null
               /\ calibratedZ' = Some(cal'.finalZ)
               /\ screenBoundsRef' = FinalBounds'
               /\ screenBounds' = FinalBounds'
               /\ calibratedConfigKey' = configKeyOf(config)
          ELSE /\ calibratedZ' \in {calibratedZ, Null}
               /\ screenBoundsRef' = screenBoundsRef
               /\ screenBounds' \in {screenBounds, Null}
               /\ calibratedConfigKey' = calibratedConfigKey]_vars

\* frames went by after the report, and a click on Generate has cleared the
\* bounds of the App: a second report would fill them again
C33_Witness ==
  /\ cal.phase = "done"
  /\ calibratedZ = Some(cal.finalZ)
  /\ isGenerating
  /\ screenBounds = Null
  /\ screenBoundsRef = FinalBounds
  /\ renderedElapsed > 0

\* the states of a calibrator that runs one sample step per frame, the
\* geometry being loaded: the n states from c on (computed by halves; a done
\* calibrator stays as it is)
RECURSIVE SlowRunFrom(_, _, _)
SlowRunFrom(c, cfg, n) ==
  IF n <= 1
    THEN << c >>
    ELSE CHOOSE run \in
           { left \o SlowRunFrom(CalibratorFrame(left[Len(left)], cfg, TRUE,
                                                 stepsPerFrameSlow),
                                 cfg, n - n \div 2) :
             left \in { SlowRunFrom(c, cfg, n \div 2) } } : TRUE

\* the run of the diagnostic mode for the config on display, up to its first
\* done state
SlowRun ==
  CHOOSE run \in
    { SubSeq(all, 1, CHOOSE k \in 1..Len(all) :
                       /\ all[k].phase = "done" \/ k = Len(all)
                       /\ \A h \in 1..(k - 1) : all[h].phase # "done") :
      all \in { SlowRunFrom(FreshCalibration, config, StepsLeft(FreshCalibration) + 1) } } :
    TRUE

PaddingIndices == (Min(255, Len(capture.colorCounts)) + 1)..255

\* C35: the entries that pad the palette to 256 are never referenced: no
\* pixel of any frame gets the index of a padding entry.
C35_PaddingNeverReferenced ==
  capture.gif # Null =>
    \E padding \in { PaddingIndices } :
      \A f \in 1..Len(capture.gif.frames) :
        \A j \in 1..Len(capture.gif.frames[f].indexed) :
          capture.gif.frames[f].indexed[j] \notin padding

\* black pixels on a magenta key: they get the index of the black counted in
\* the frames, not of the black padding entries that follow
C35_Witness ==
  /\ capture.pc = "resolved"
  /\ capture.scene = "text"
  /\ capture.options.chromaKeyRgb = Rgb(255, 0, 255)
  /\ Len(capture.colorCounts) = 3
  /\ capture.palette[5] = Rgb(0, 0, 0)
  /\ \E j \in 1..Len(capture.frames[1]) :
       /\ capture.frames[1][j] = Rgb(0, 0, 0)
       /\ capture.gif.frames[1].indexed[j] \in 1..3

\* C36: a pixel that is not within the tolerance of the chroma key never gets
\* the transparent index 0, not even when the chroma key is the palette entry
\* nearest to it: its index is one of 1..255.
C36_VisibleNeverTransparent ==
  capture.gif # Null =>
    \A f \in 1..Len(capture.gif.frames) :
      \A j \in 1..Len(capture.frames[f]) :
        ~WithinTolerance(capture.frames[f][j]) =>
          capture.gif.frames[f].indexed[j] \in 1..255

\* a pixel 5 away from the chroma key in one channel, left out of a full
\* palette: entry 0 is nearer to it than the entry it gets
C36_Witness ==
  /\ capture.pc = "resolved"
  /\ Len(capture.colorCounts) > 255
  /\ \E j \in 1..Len(capture.frames[1]) :
       LET p == capture.frames[1][j]
           k == capture.gif.frames[1].indexed[j]
       IN /\ ~WithinTolerance(p)
          /\ k >= 1
          /\ Dist(p, capture.palette[1]) < Dist(p, capture.palette[k + 1])

\* C37: for bounds with 0 <= minX <= maxX <= 1 and 0 <= minY <= maxY <= 1 and
\* any canvas size, the crop rectangle of captureGif lies inside the canvas:
\* srcX >= 0, srcY >= 0, srcX + srcW <= W and srcY + srcH <= H
C37_CropInsideCanvas ==
  (call.fn = "cropRegion" /\ call.done) =>
    /\ call.result.srcX >= 0
    /\ call.result.srcY >= 0
    /\ call.result.srcX + call.result.srcW <= call.canvas.width
    /\ call.result.srcY + call.result.srcH <= call.canvas.height

\* C38: while an export is in flight (isCapturing set) the rendered TextConfig
\* is never replaced and no second call of handleExportGif starts
C38_ExportExclusive ==
  [][isCapturing =>
       /\ config' = config
       /\ ~(export'.pc = "awaitReset" /\ export.pc # "awaitReset")]_vars

\* on its own: no second call of handleExportGif starts while one is in flight
NoSecondExport ==
  [][isCapturing => ~(export'.pc = "awaitReset" /\ export.pc # "awaitReset")]_vars

(***************************************************************************)
(* The app with its scheduling: the browser keeps delivering animation     *)
(* frames, the font and the glyph geometries finish loading, and a         *)
(* resumed export step runs in the frame that resumed it.  Clicks and the  *)
(* timer of handleGenerate are left to the user and the event loop.        *)
(***************************************************************************)
FairSpec ==
  /\ Spec
  /\ WF_vars(Tick)
  /\ WF_vars(GeometryLoads)
  /\ WF_vars(StartCapture)
  /\ WF_vars(CaptureFrame)

\* a config is installed and no replacement of it is pending
ConfigInstalled == config # Null /\ ~isGenerating

\* C39: after every Generate that installs a config, with frames going on and
\* the geometry loading, calibration completes and the export buttons become
\* enabled again (unless Generate is clicked again first), also when the new
\* config has the fingerprint of the one it replaces
C39_ExportEnabledAgain == ConfigInstalled ~> (ExportEnabled \/ isGenerating)

\* on its own: the same for an installed config whose calibrator is mounted,
\* as it is after the first config and after a config with a new fingerprint
CalibratorMountedLeadsToEnabled ==
  (ConfigInstalled /\ calibratedZ = Null) ~> (ExportEnabled \/ isGenerating)

====
